---- MODULE Spec2Model ----
(***************************************************************************)
(* Resumable proof verification, base-commitment hashing, request queues   *)
(* and the nullifier ledger of the elusiv program.                         *)
(*                                                                         *)
(* Handlers of src/src/processor/process.rs are operators from a world     *)
(* record (all account data) and the call's arguments to a result          *)
(* [err, w]: w carries the writes made up to the point of return.  The     *)
(* runtime keeps the writes of a call only when it returns Ok (Execute);   *)
(* a failing call leaves every account as it was.                          *)
(***************************************************************************)
EXTENDS Integers, Sequences, FiniteSets, TLC

\* ------------------------------------------------------------------ bounds
MAX_INSTANCES == 2             \* VerificationAccount instances
HASH_MAX_INSTANCES == 1        \* BaseCommitmentHashingAccount instances
CAPACITY == 2                  \* capacity of a request queue
OUT_CAPACITY == 1              \* capacity of the commitment and FinalizeSend queues
MaxRequests == 2               \* requests submitted over a run
COMBINED_MILLER_LOOP_IXS == 2  \* compute calls of the combined Miller loop
FINAL_EXPONENTIATION_IXS == 2  \* compute calls of the final exponentiation
TOTAL_POSEIDON_ROUNDS == 2     \* compute calls of one base-commitment hash
MAX_ELEMENTS_COUNT == 1        \* entries of one pending-nullifier map
Q == 7                         \* order of the scalar field of the model
MaxItems == 3                  \* distinct items offered to the queue on its own
MaxOps == 4                    \* successful enqueues on the queue on its own
MaxAccounts == 4               \* accounts supplied to find_sub_accounts
MaxSize == 12                  \* largest size of a big array, and largest index
MaxRegionValues == 4           \* largest number of values in one account of it
BASIC_WARDEN_NETWORK_SIZE == 3 \* ElusivBasicWardenNetwork::SIZE.max(), 1024 in the program
MaxWardens == 4                \* warden ids that ask for registration
LIMB == 4                      \* base of the two limbs of a stored u256

\* ------------------------------------------------------- program constants
COEFFS == 91                   \* Miller-loop coefficients of the curve

Slots == 0 .. MAX_INSTANCES - 1
SlotArgs == 0 .. MAX_INSTANCES          \* the last one is not a valid index
HashSlots == 0 .. HASH_MAX_INSTANCES - 1
HashSlotArgs == 0 .. HASH_MAX_INSTANCES
Trees == {0, 1}
Hashes == {1, 2}
FeePayers == {"p1", "p2"}
Ids == 1 .. MaxRequests

\* ------------------------------------------------------------ request data
NoRequest ==
    [id |-> 0, kind |-> "None", nullifier_hashes |-> << >>, tree_indices |-> << >>,
     commitment |-> <<0, 0>>, fee_payer |-> "none", amount |-> 0, recipient |-> "none",
     public_inputs |-> << >>]

SendRequest ==
    [id |-> 0, kind |-> "Send", nullifier_hashes |-> <<1, 2>>, tree_indices |-> <<0, 1>>,
     commitment |-> <<3, 0>>, fee_payer |-> "p1", amount |-> 5, recipient |-> "r1",
     public_inputs |-> <<1, 2>>]

MergeRequest ==
    [id |-> 0, kind |-> "Merge", nullifier_hashes |-> <<2, 1>>, tree_indices |-> <<0, 1>>,
     commitment |-> <<0, 1>>, fee_payer |-> "p1", amount |-> 0, recipient |-> "none",
     public_inputs |-> <<3>>]

MigrateRequest ==
    [id |-> 0, kind |-> "Migrate", nullifier_hashes |-> <<2>>, tree_indices |-> <<1>>,
     commitment |-> <<1, 1>>, fee_payer |-> "p2", amount |-> 0, recipient |-> "none",
     public_inputs |-> <<2>>]

\* proofs a caller may stage: three curve points; a coordinate outside the
\* field cannot be decoded
Proofs ==
    { [a |-> 5, b |-> 2, c |-> 3],
      [a |-> 0, b |-> 2, c |-> 3],
      [a |-> Q, b |-> 2, c |-> 3] }

\* ------------------------------------------------------ field conversions
\* a stored u256 is two little-endian limbs
fr_to_u256_le(x) == << x % LIMB, x \div LIMB >>
u256_to_fr(u) == (u[1] + LIMB * u[2]) % Q

\* ------------------------------------------------------------------ queues
\* (mutant) the capacity is not checked
enqueue_Unbounded(q, item, capacity) ==
    [err |-> "Ok", q |-> Append(q, item)]

enqueue(q, item, capacity) ==
    IF Len(q) >= capacity
    THEN [err |-> "QueueIsFull", q |-> q]
    ELSE [err |-> "Ok", q |-> Append(q, item)]

\* (mutant) the newest item is served
dequeue_first_Newest(q) ==
    IF Len(q) = 0
    THEN [err |-> "QueueIsEmpty", q |-> q, item |-> NoRequest]
    ELSE [err |-> "Ok", q |-> SubSeq(q, 1, Len(q) - 1), item |-> q[Len(q)]]

dequeue_first(q) ==
    IF Len(q) = 0
    THEN [err |-> "QueueIsEmpty", q |-> q, item |-> NoRequest]
    ELSE [err |-> "Ok", q |-> Tail(q), item |-> Head(q)]

\* --------------------------------------------------------------- accounts
is_valid(index, max_instances) == index < max_instances

EmptyVerificationAccount ==
    [is_active |-> FALSE, is_verified |-> FALSE, round |-> 0, request |-> NoRequest,
     state |-> "None", a |-> 0, b |-> 0, c |-> 0, public_input |-> << >>,
     prepare_inputs_instructions_count |-> 0, prepared_inputs |-> 0,
     f |-> 1, coeff_index |-> 0]

\* ----------------------------------------------------- verifying key (model)
gamma_abc_g1(i) == (i + 2) % Q
GAMMA_G2_NEG == 3
DELTA_G2_NEG == 5
ALPHA_BETA == 1

prepare_public_inputs_instructions(public_inputs) == Len(public_inputs)

VARIABLES
    send_queue, merge_queue, migrate_queue,      \* proof request queues
    finalize_send_queue, commitment_queue, base_commitment_queue,
    verification_account,                        \* Slots -> account
    hashing_account,                             \* HashSlots -> account
    commitment_hashing_account,
    nullifier_account,                           \* Trees -> set of hashes
    pending_nullifiers,                          \* Trees -> (hash -> count)
    hist                                         \* history of committed effects

vars == << send_queue, merge_queue, migrate_queue, finalize_send_queue,
           commitment_queue, base_commitment_queue, verification_account,
           hashing_account, commitment_hashing_account, nullifier_account,
           pending_nullifiers, hist >>


\* all account data, as one record
World ==
    [send_queue |-> send_queue, merge_queue |-> merge_queue,
     migrate_queue |-> migrate_queue, finalize_send_queue |-> finalize_send_queue,
     commitment_queue |-> commitment_queue,
     base_commitment_queue |-> base_commitment_queue,
     verification_account |-> verification_account,
     hashing_account |-> hashing_account,
     commitment_hashing_account |-> commitment_hashing_account,
     nullifier_account |-> nullifier_account,
     pending_nullifiers |-> pending_nullifiers, hist |-> hist]

Ok(w) == [err |-> "Ok", w |-> w]
Err(e, w) == [err |-> e, w |-> w]
\* the ? operator: continue with the writes of r, or return its error
Then(r, F(_)) == IF r.err = "Ok" THEN F(r.w) ELSE r
\* (mutant) the writes made before an error are kept
Outcome_Partial(w, r) == r.w

\* the accounts after a call made on w: its writes are kept only when it returns Ok
Outcome(w, r) == IF r.err = "Ok" THEN r.w ELSE w

\* ------------------------------------------------- history (not program state)
InitHist ==
    [next_id |-> 1,
     commitments |-> [i \in Ids |-> 0],     \* commitments enqueued for request i
     sends |-> [i \in Ids |-> 0],           \* FinalizeSend intents enqueued for i
     inserts |-> [i \in Ids |-> 0],         \* nullifier hashes inserted for i
     finalized |-> [i \in Ids |-> 0],       \* successful finalize calls for i
     tree_commits |-> [t \in Trees |-> [h \in Hashes |-> 0]],
     steps |-> [s \in Slots |-> 0],         \* successful compute calls since init
     hash_steps |-> [s \in HashSlots |-> 0], \* the same for the hash accounts
     rejected |-> {},                       \* requests whose proof was refuted
     strict |-> {},                         \* requests validated without duplicates
     bound |-> [i \in Ids |-> 0]]           \* bindings of request i to a slot

Bump(w, field, id) == [w EXCEPT !.hist[field][id] = @ + 1]

\* ------------------------------------------------------- nullifier ledger
\* NullifierAccount::insert_nullifier_hash
insert_nullifier_hash(w, id, tree, hash) ==
    IF hash \in w.nullifier_account[tree]
    THEN Err("NullifierAlreadyExists", w)
    ELSE Ok([w EXCEPT !.nullifier_account[tree] = @ \cup {hash},
                      !.hist.tree_commits[tree][hash] = @ + 1,
                      !.hist.inserts[id] = @ + 1])

enqueue_commitment(w, id, commitment) ==
    LET e == enqueue(w.commitment_queue, commitment, OUT_CAPACITY)
    IN  IF e.err # "Ok" THEN Err(e.err, w)
        ELSE Ok(Bump([w EXCEPT !.commitment_queue = e.q], "commitments", id))

\* (mutant) the intent is counted and not queued
enqueue_finalize_send_Skipped(w, id, request) ==
    Ok(Bump(w, "sends", id))

enqueue_finalize_send(w, id, request) ==
    LET e == enqueue(w.finalize_send_queue,
                     [amount |-> request.amount, recipient |-> request.recipient],
                     OUT_CAPACITY)
    IN  IF e.err # "Ok" THEN Err(e.err, w)
        ELSE Ok(Bump([w EXCEPT !.finalize_send_queue = e.q], "sends", id))

\* send_from_pool(pool, original_fee_payer, 0) moves zero lamports
send_from_pool(w, recipient, amount) == Ok(w)

\* -------------------------------------------------- partial verification
Decodable(p) == p \in 0 .. Q - 1

\* coefficient index reached by the k-th call of the combined Miller loop
MillerEnd(k) == ((k + 1) * COEFFS) \div COMBINED_MILLER_LOOP_IXS

\* line evaluation of the three pairs (A,B), (prepared inputs,-gamma), (C,-delta)
ell(acc, coeff) ==
    ((acc.a * acc.b + acc.prepared_inputs * GAMMA_G2_NEG + acc.c * DELTA_G2_NEG)
        * (1 + 2 * (coeff % 2))) % Q

RECURSIVE miller_loop_coeffs(_, _, _, _)
miller_loop_coeffs(acc, f, from, to) ==
    IF from >= to THEN f
    ELSE IF to = from + 1 THEN (f * f * ell(acc, from)) % Q
    ELSE LET half == from + (to - from) \div 2
             f1 == miller_loop_coeffs(acc, f, from, half)
         IN  IF f1 \in 0 .. Q - 1 THEN miller_loop_coeffs(acc, f1, half, to) ELSE f1

TotalRounds(acc) ==
    acc.prepare_inputs_instructions_count + COMBINED_MILLER_LOOP_IXS
        + FINAL_EXPONENTIATION_IXS

\* verify_partial::<VKey>(round, account): one round of the given index;
\* result is "None" until the last round yields "True" or "False"
verify_partial(round, acc) ==
    LET P == acc.prepare_inputs_instructions_count
        M == P + COMBINED_MILLER_LOOP_IXS
        T == M + FINAL_EXPONENTIATION_IXS
    IN  IF acc.state # "ProofSetup"
        THEN [err |-> "InvalidAccountState", result |-> "None", acc |-> acc]
        ELSE IF round < P
        THEN [err |-> "Ok", result |-> "None",
              acc |-> [acc EXCEPT !.prepared_inputs =
                          (@ + acc.public_input[round + 1] * gamma_abc_g1(round + 1)) % Q]]
        ELSE IF round < M
        THEN IF ~(Decodable(acc.a) /\ Decodable(acc.b) /\ Decodable(acc.c))
             THEN [err |-> "CouldNotProcessProof", result |-> "None", acc |-> acc]
             ELSE [err |-> "Ok", result |-> "None",
                   acc |-> [acc EXCEPT
                       !.f = miller_loop_coeffs(acc, @, acc.coeff_index, MillerEnd(round - P)),
                       !.coeff_index = MillerEnd(round - P)]]
        ELSE IF round < T
        THEN LET f1 == (acc.f * acc.f * acc.f) % Q
             IN  [err |-> "Ok",
                  result |-> IF round + 1 < T THEN "None"
                             ELSE IF f1 = ALPHA_BETA THEN "True" ELSE "False",
                  acc |-> [acc EXCEPT !.f = f1]]
        ELSE [err |-> "ComputationIsAlreadyFinished", result |-> "None", acc |-> acc]

\* VerificationAccount::reset::<VKey>(request)
reset(acc, request) ==
    [is_active |-> TRUE, is_verified |-> FALSE, round |-> 0, request |-> request,
     state |-> "None", a |-> 0, b |-> 0, c |-> 0,
     public_input |-> request.public_inputs,
     prepare_inputs_instructions_count |->
         prepare_public_inputs_instructions(request.public_inputs),
     prepared_inputs |-> gamma_abc_g1(0), f |-> 1, coeff_index |-> 0]


\* (mutant) the write goes to every verification account
SetVerificationAccount_Shared(w, index, acc) ==
    [w EXCEPT !.verification_account = [j \in DOMAIN @ |-> acc]]

SetVerificationAccount(w, index, acc) ==
    [w EXCEPT !.verification_account[index] = acc]

\* ------------------------------------------------------------ submissions
\* a submitter places a new request (with a fresh id) into its queue
enqueue_request(w, queue, request) ==
    LET e == enqueue(w[queue], [request EXCEPT !.id = w.hist.next_id], CAPACITY)
    IN  IF e.err # "Ok" THEN Err(e.err, w)
        ELSE Ok([w EXCEPT ![queue] = e.q, !.hist.next_id = @ + 1])

\* ------------------------------------------------------- proof verification
\* init_proof!: dequeues a proof request and places it into a VerificationAccount
\* (mutant) the slot is not checked to be inactive
init_proof_NoActiveGuard(w, queue, index) ==
    IF ~is_valid(index, MAX_INSTANCES) THEN Err("InvalidAccount", w)
    ELSE LET d == dequeue_first(w[queue])
         IN  IF d.err # "Ok" THEN Err(d.err, w)
             ELSE Ok([w EXCEPT ![queue] = d.q,
                               !.verification_account[index] = reset(@, d.item),
                               !.hist.steps[index] = 0,
                               !.hist.bound[d.item.id] = @ + 1])

\* (mutant) the request is bound and stays in the queue
init_proof_KeepsQueue(w, queue, index) ==
    IF ~is_valid(index, MAX_INSTANCES) THEN Err("InvalidAccount", w)
    ELSE IF w.verification_account[index].is_active
    THEN Err("ComputationIsNotYetFinished", w)
    ELSE LET d == dequeue_first(w[queue])
         IN  IF d.err # "Ok" THEN Err(d.err, w)
             ELSE Ok([w EXCEPT !.verification_account[index] = reset(@, d.item),
                               !.hist.steps[index] = 0,
                               !.hist.bound[d.item.id] = @ + 1])

init_proof(w, queue, index) ==
    IF ~is_valid(index, MAX_INSTANCES) THEN Err("InvalidAccount", w)
    ELSE IF w.verification_account[index].is_active
    THEN Err("ComputationIsNotYetFinished", w)
    ELSE LET d == dequeue_first(w[queue])
         IN  IF d.err # "Ok" THEN Err(d.err, w)
             ELSE Ok([w EXCEPT ![queue] = d.q,
                               !.verification_account[index] = reset(@, d.item),
                               !.hist.steps[index] = 0,
                               !.hist.bound[d.item.id] = @ + 1])

init_send_proof(w, index) == init_proof(w, "send_queue", index)
init_merge_proof(w, index) == init_proof(w, "merge_queue", index)
init_migrate_proof(w, index) == init_proof(w, "migrate_queue", index)

\* PendingNullifierHashesMap: claim of one hash
\* (mutant) a duplicate is accepted without counting it
claim_Uncounted(m, hash, allow_duplicates) ==
    IF hash \in DOMAIN m
    THEN IF allow_duplicates
         THEN [err |-> "Ok", m |-> m]
         ELSE [err |-> "NullifierAlreadyExists", m |-> m]
    ELSE IF Cardinality(DOMAIN m) >= MAX_ELEMENTS_COUNT
         THEN [err |-> "PendingMapFull", m |-> m]
         ELSE [err |-> "Ok", m |-> [h \in DOMAIN m \cup {hash} |->
                                       IF h = hash THEN 1 ELSE m[h]]]

\* (mutant) a new entry is made however many the map holds
claim_NoLimit(m, hash, allow_duplicates) ==
    IF hash \in DOMAIN m
    THEN IF allow_duplicates
         THEN [err |-> "Ok", m |-> [m EXCEPT ![hash] = @ + 1]]
         ELSE [err |-> "NullifierAlreadyExists", m |-> m]
    ELSE [err |-> "Ok", m |-> [h \in DOMAIN m \cup {hash} |->
                                  IF h = hash THEN 1 ELSE m[h]]]

\* (mutant) a hash that is already pending is claimed again whatever the flag
claim_IgnoreDuplicates(m, hash, allow_duplicates) ==
    IF hash \in DOMAIN m
    THEN [err |-> "Ok", m |-> [m EXCEPT ![hash] = @ + 1]]
    ELSE IF Cardinality(DOMAIN m) >= MAX_ELEMENTS_COUNT
         THEN [err |-> "PendingMapFull", m |-> m]
         ELSE [err |-> "Ok", m |-> [h \in DOMAIN m \cup {hash} |->
                                       IF h = hash THEN 1 ELSE m[h]]]

claim(m, hash, allow_duplicates) ==
    IF hash \in DOMAIN m
    THEN IF allow_duplicates
         THEN [err |-> "Ok", m |-> [m EXCEPT ![hash] = @ + 1]]
         ELSE [err |-> "NullifierAlreadyExists", m |-> m]
    ELSE IF Cardinality(DOMAIN m) >= MAX_ELEMENTS_COUNT
         THEN [err |-> "PendingMapFull", m |-> m]
         ELSE [err |-> "Ok", m |-> [h \in DOMAIN m \cup {hash} |->
                                       IF h = hash THEN 1 ELSE m[h]]]

RECURSIVE claim_all(_, _, _, _)
claim_all(w, request, k, allow_duplicates) ==
    IF k > Len(request.nullifier_hashes) THEN Ok(w)
    ELSE LET t == request.tree_indices[k]
             c == claim(w.pending_nullifiers[t], request.nullifier_hashes[k],
                        allow_duplicates)
         IN  IF c.err # "Ok" THEN Err(c.err, w)
             ELSE claim_all([w EXCEPT !.pending_nullifiers[t] = c.m],
                            request, k + 1, allow_duplicates)

\* init_verification_validate_nullifier_hashes
init_verification_validate_nullifier_hashes(w, index, tree_indices, allow_duplicates) ==
    IF ~is_valid(index, MAX_INSTANCES) THEN Err("InvalidAccount", w)
    ELSE LET acc == w.verification_account[index]
         IN  IF ~acc.is_active \/ acc.state # "None"
             THEN Err("InvalidAccountState", w)
             ELSE IF tree_indices # acc.request.tree_indices
             THEN Err("InvalidAccount", w)
             ELSE Then(claim_all(w, acc.request, 1, allow_duplicates),
                       LAMBDA w1 : Ok([w1 EXCEPT
                           !.verification_account[index].state = "NullifiersChecked",
                           !.hist.strict = IF allow_duplicates THEN @
                                           ELSE @ \cup {acc.request.id}]))

\* (mutant) the proof is staged whatever the setup state
init_verification_proof_AnyState(w, index, proof) ==
    IF ~is_valid(index, MAX_INSTANCES) THEN Err("InvalidAccount", w)
    ELSE LET acc == w.verification_account[index]
         IN  IF ~acc.is_active THEN Err("InvalidAccountState", w)
             ELSE Ok(SetVerificationAccount(w, index,
                        [acc EXCEPT !.a = proof.a, !.b = proof.b, !.c = proof.c,
                                    !.state = "ProofSetup"]))

\* init_verification_proof
init_verification_proof(w, index, proof) ==
    IF ~is_valid(index, MAX_INSTANCES) THEN Err("InvalidAccount", w)
    ELSE LET acc == w.verification_account[index]
         IN  IF ~acc.is_active \/ acc.state # "NullifiersChecked"
             THEN Err("InvalidAccountState", w)
             ELSE Ok(SetVerificationAccount(w, index,
                        [acc EXCEPT !.a = proof.a, !.b = proof.b, !.c = proof.c,
                                    !.state = "ProofSetup"]))

\* (mutant) a round is skipped
next_round_Skip(round) == round + 2

next_round(round) == round + 1

\* (mutant) the public inputs are used up by the round
serialize_rams_Consumes(before, after) == [after EXCEPT !.public_input = << >>]

\* (mutant) the registers computed by the round are not written back
serialize_rams_Dropped(before, after) == before

\* serialize_rams(): the registers computed by the round are written back
serialize_rams(before, after) == after

\* (mutant) the error is not returned and the handler runs on
cancel_verification_Swallowed(w, index, e, acc) ==
    Ok(SetVerificationAccount(w, index,
           [acc EXCEPT !.is_active = FALSE, !.round = next_round(@)]))

\* an error can only happen with flawed inputs -> cancel verification
cancel_verification(w, index, e, acc) ==
    Err(e, SetVerificationAccount(w, index, [acc EXCEPT !.is_active = FALSE]))

\* compute_proof: partial proof verification computation
\* (mutant) the proof counts as verified before the last round has decided
apply_result_Eager(acc, result) ==
    IF result = "False" THEN [acc EXCEPT !.is_active = FALSE]
    ELSE [acc EXCEPT !.is_verified = TRUE]

\* (mutant) the result false leaves the account active
apply_result_StaysActive(acc, result) ==
    IF result = "True" THEN [acc EXCEPT !.is_verified = TRUE]
    ELSE acc

\* Ok(Some(true)) marks the proof verified, Ok(Some(false)) deactivates the
\* account, Ok(None) leaves both flags
apply_result(acc, result) ==
    IF result = "True" THEN [acc EXCEPT !.is_verified = TRUE]
    ELSE IF result = "False" THEN [acc EXCEPT !.is_active = FALSE]
    ELSE acc

compute_proof(w, index) ==
    IF ~is_valid(index, MAX_INSTANCES) THEN Err("InvalidAccount", w)
    ELSE IF ~w.verification_account[index].is_active
    THEN Err("ComputationIsNotYetFinished", w)
    ELSE LET acc == w.verification_account[index]
             round == acc.round
             v == verify_partial(round, acc)
         IN  IF v.err # "Ok"
             THEN cancel_verification(w, index, v.err, v.acc)
             ELSE LET rams == serialize_rams(acc, v.acc)
                      acc1 == apply_result(rams, v.result)
                      w1 == SetVerificationAccount(w, index,
                                [acc1 EXCEPT !.round = next_round(round)])
                  IN  Ok([w1 EXCEPT !.hist.steps[index] = @ + 1,
                                    !.hist.rejected =
                                        IF v.result = "False"
                                        THEN @ \cup {acc.request.id} ELSE @])

\* (mutant) whoever is supplied as the fee payer is repaid
repay_fee_payer_Anyone(w, original_fee_payer, request) ==
    send_from_pool(w, original_fee_payer, 0)

\* repay the fee payer that payed the computation fee upfront
repay_fee_payer(w, original_fee_payer, request) ==
    IF original_fee_payer # request.fee_payer THEN Err("InvalidFeePayer", w)
    ELSE send_from_pool(w, original_fee_payer, 0)

\* (mutant) the result of the insertions is not propagated
insert_nullifiers_binary_Unchecked(w, request, tree_indices) ==
    IF tree_indices[1] # request.tree_indices[1] THEN Err("InvalidAccount", w)
    ELSE IF tree_indices[2] # request.tree_indices[2] THEN Err("InvalidAccount", w)
    ELSE Ok(Outcome(
             Outcome(w, insert_nullifier_hash(w, request.id, tree_indices[1],
                                              request.nullifier_hashes[1])),
             insert_nullifier_hash(
                 Outcome(w, insert_nullifier_hash(w, request.id, tree_indices[1],
                                                  request.nullifier_hashes[1])),
                 request.id, tree_indices[2], request.nullifier_hashes[2])))

\* (mutant) both hashes go into the first tree
insert_nullifiers_binary_SameTree(w, request, tree_indices) ==
    IF tree_indices[1] # request.tree_indices[1] THEN Err("InvalidAccount", w)
    ELSE IF tree_indices[2] # request.tree_indices[2] THEN Err("InvalidAccount", w)
    ELSE Then(insert_nullifier_hash(w, request.id, tree_indices[1],
                                    request.nullifier_hashes[1]),
              LAMBDA w1 : insert_nullifier_hash(w1, request.id, tree_indices[1],
                                                request.nullifier_hashes[2]))

\* check for correct trees and insert both nullifier hashes
insert_nullifiers_binary(w, request, tree_indices) ==
    IF tree_indices[1] # request.tree_indices[1] THEN Err("InvalidAccount", w)
    ELSE IF tree_indices[2] # request.tree_indices[2] THEN Err("InvalidAccount", w)
    ELSE Then(insert_nullifier_hash(w, request.id, tree_indices[1],
                                    request.nullifier_hashes[1]),
              LAMBDA w1 : insert_nullifier_hash(w1, request.id, tree_indices[2],
                                                request.nullifier_hashes[2]))

\* the three guards both finalize handlers start with
\* (mutant) the verified flag is not checked
finalize_guards_NoVerifiedCheck(w, index) ==
    IF ~is_valid(index, MAX_INSTANCES) THEN "InvalidAccount"
    ELSE IF ~w.verification_account[index].is_active THEN "ComputationIsNotYetFinished"
    ELSE "Ok"

finalize_guards(w, index) ==
    IF ~is_valid(index, MAX_INSTANCES) THEN "InvalidAccount"
    ELSE IF ~w.verification_account[index].is_active THEN "ComputationIsNotYetFinished"
    ELSE IF ~w.verification_account[index].is_verified THEN "InvalidProof"
    ELSE "Ok"

\* finalize_proof_binary: finalizes proofs of arity two
finalize_proof_binary(w, index, tree_indices, original_fee_payer) ==
    IF finalize_guards(w, index) # "Ok" THEN Err(finalize_guards(w, index), w)
    ELSE LET request == w.verification_account[index].request
         IN  IF request.kind = "Send"
             THEN Then(insert_nullifiers_binary(w, request, tree_indices), LAMBDA w1 :
                  Then(enqueue_finalize_send(w1, request.id, request), LAMBDA w2 :
                  Then(enqueue_commitment(w2, request.id, request.commitment), LAMBDA w3 :
                  Then(repay_fee_payer(w3, original_fee_payer, request), LAMBDA w4 :
                  Ok(Bump(w4, "finalized", request.id))))))
             ELSE IF request.kind = "Merge"
             THEN Then(insert_nullifiers_binary(w, request, tree_indices), LAMBDA w1 :
                  Then(enqueue_commitment(w1, request.id, request.commitment), LAMBDA w2 :
                  Then(repay_fee_payer(w2, original_fee_payer, request), LAMBDA w3 :
                  Ok(Bump(w3, "finalized", request.id)))))
             ELSE Err("CannotFinalizeUnaryProof", w)

\* (mutant) a request of any kind is finalized by its first nullifier hash
finalize_proof_unary_AnyKind(w, index, tree_index, original_fee_payer) ==
    IF finalize_guards(w, index) # "Ok" THEN Err(finalize_guards(w, index), w)
    ELSE LET request == w.verification_account[index].request
         IN  IF tree_index # request.tree_indices[1] THEN Err("InvalidAccount", w)
             ELSE
             Then(insert_nullifier_hash(w, request.id, tree_index,
                                        request.nullifier_hashes[1]), LAMBDA w1 :
             Then(enqueue_commitment(w1, request.id, request.commitment), LAMBDA w2 :
             Then(repay_fee_payer(w2, original_fee_payer, request), LAMBDA w3 :
             Ok(Bump(w3, "finalized", request.id)))))

\* (mutant) the supplied tree index is not compared with the request's
finalize_proof_unary_AnyTree(w, index, tree_index, original_fee_payer) ==
    IF finalize_guards(w, index) # "Ok" THEN Err(finalize_guards(w, index), w)
    ELSE LET request == w.verification_account[index].request
         IN  IF request.kind = "Migrate"
             THEN Then(insert_nullifier_hash(w, request.id, tree_index,
                                             request.nullifier_hashes[1]), LAMBDA w1 :
                  Then(enqueue_commitment(w1, request.id, request.commitment), LAMBDA w2 :
                  Then(repay_fee_payer(w2, original_fee_payer, request), LAMBDA w3 :
                  Ok(Bump(w3, "finalized", request.id)))))
             ELSE Err("CannotFinalizeBinaryProof", w)

\* finalize_proof_unary: finalizes proofs of arity one
finalize_proof_unary(w, index, tree_index, original_fee_payer) ==
    IF finalize_guards(w, index) # "Ok" THEN Err(finalize_guards(w, index), w)
    ELSE LET request == w.verification_account[index].request
         IN  IF request.kind = "Migrate"
             THEN IF tree_index # request.tree_indices[1] THEN Err("InvalidAccount", w)
                  ELSE
                  Then(insert_nullifier_hash(w, request.id, tree_index,
                                             request.nullifier_hashes[1]), LAMBDA w1 :
                  Then(enqueue_commitment(w1, request.id, request.commitment), LAMBDA w2 :
                  Then(repay_fee_payer(w2, original_fee_payer, request), LAMBDA w3 :
                  Ok(Bump(w3, "finalized", request.id)))))
             ELSE Err("CannotFinalizeBinaryProof", w)


\* --------------------------------------------------- base commitment hashing
\* binary_poseidon_hash_partial(round, &mut state): one round of the sponge
binary_poseidon_hash_partial(round, st) ==
    LET t == [i \in 1 .. 3 |->
                 LET x == (st[i] + round + i) % Q IN (x * x * x) % Q]
    IN  << (2 * t[1] + t[2] + t[3]) % Q,
           (t[1] + 2 * t[2] + t[3]) % Q,
           (t[1] + t[2] + 2 * t[3]) % Q >>

RECURSIVE poseidon_rounds(_, _)
poseidon_rounds(st, round) ==
    IF round >= TOTAL_POSEIDON_ROUNDS THEN st
    ELSE poseidon_rounds(binary_poseidon_hash_partial(round, st), round + 1)

BaseCommitmentDigest(base_commitment, amount) ==
    fr_to_u256_le(poseidon_rounds(<< u256_to_fr(base_commitment), amount % Q, 0 >>, 0)[1])

\* requests a submitter may place: one claims the right commitment, one does not
BaseCommitmentRequest ==
    [id |-> 0, kind |-> "BaseCommitment", base_commitment |-> <<3, 0>>, amount |-> 2,
     commitment |-> BaseCommitmentDigest(<<3, 0>>, 2)]

FlawedBaseCommitmentRequest ==
    [BaseCommitmentRequest EXCEPT
        !.commitment = fr_to_u256_le((u256_to_fr(@) + 1) % Q)]

EmptyHashingAccount ==
    [is_active |-> FALSE, round |-> 0, total_rounds |-> TOTAL_POSEIDON_ROUNDS,
     state |-> << <<0, 0>>, <<0, 0>>, <<0, 0>> >>,
     request |-> [BaseCommitmentRequest EXCEPT !.kind = "None"],
     fee_payer |-> "none"]

\* BaseCommitmentHashingAccount::reset(request, fee_payer)
reset_hashing_account(acc, request, fee_payer) ==
    [is_active |-> TRUE, round |-> 0, total_rounds |-> TOTAL_POSEIDON_ROUNDS,
     state |-> << request.base_commitment, fr_to_u256_le(request.amount % Q),
                  fr_to_u256_le(0) >>,
     request |-> request, fee_payer |-> fee_payer]

init_base_commitment_hash(w, fee_payer, index) ==
    IF ~is_valid(index, HASH_MAX_INSTANCES) THEN Err("InvalidAccount", w)
    ELSE IF w.hashing_account[index].is_active
    THEN Err("ComputationIsNotYetFinished", w)
    ELSE LET d == dequeue_first(w.base_commitment_queue)
         IN  IF d.err # "Ok" THEN Err(d.err, w)
             ELSE Ok([w EXCEPT !.base_commitment_queue = d.q,
                               !.hashing_account[index] =
                                   reset_hashing_account(@, d.item, fee_payer),
                               !.hist.hash_steps[index] = 0,
                               !.hist.bound[d.item.id] = @ + 1])

\* (mutant) the last round is refused
compute_base_commitment_hash_Stalls(w, index) ==
    IF ~is_valid(index, HASH_MAX_INSTANCES) THEN Err("InvalidAccount", w)
    ELSE IF ~w.hashing_account[index].is_active
    THEN Err("ComputationIsNotYetFinished", w)
    ELSE LET acc == w.hashing_account[index]
             round == acc.round
             st == << u256_to_fr(acc.state[1]), u256_to_fr(acc.state[2]),
                      u256_to_fr(acc.state[3]) >>
         IN  IF round + 1 < acc.total_rounds
             THEN LET st1 == binary_poseidon_hash_partial(round, st)
                  IN  Ok([w EXCEPT !.hashing_account[index] =
                             [acc EXCEPT !.state = << fr_to_u256_le(st1[1]),
                                                      fr_to_u256_le(st1[2]),
                                                      fr_to_u256_le(st1[3]) >>,
                                         !.round = next_round(round)],
                         !.hist.hash_steps[index] = @ + 1])
             ELSE Err("ComputationIsAlreadyFinished", w)

\* (mutant) a round is computed whatever the round counter
compute_base_commitment_hash_Unbounded(w, index) ==
    IF ~is_valid(index, HASH_MAX_INSTANCES) THEN Err("InvalidAccount", w)
    ELSE IF ~w.hashing_account[index].is_active
    THEN Err("ComputationIsNotYetFinished", w)
    ELSE LET acc == w.hashing_account[index]
             round == acc.round
             st == << u256_to_fr(acc.state[1]), u256_to_fr(acc.state[2]),
                      u256_to_fr(acc.state[3]) >>
             st1 == binary_poseidon_hash_partial(round, st)
         IN  Ok([w EXCEPT !.hashing_account[index] =
                    [acc EXCEPT !.state = << fr_to_u256_le(st1[1]),
                                             fr_to_u256_le(st1[2]),
                                             fr_to_u256_le(st1[3]) >>,
                                !.round = next_round(round)],
                !.hist.hash_steps[index] = @ + 1])

compute_base_commitment_hash(w, index) ==
    IF ~is_valid(index, HASH_MAX_INSTANCES) THEN Err("InvalidAccount", w)
    ELSE IF ~w.hashing_account[index].is_active
    THEN Err("ComputationIsNotYetFinished", w)
    ELSE LET acc == w.hashing_account[index]
             round == acc.round
             st == << u256_to_fr(acc.state[1]), u256_to_fr(acc.state[2]),
                      u256_to_fr(acc.state[3]) >>
         IN  IF round < acc.total_rounds
             THEN LET st1 == binary_poseidon_hash_partial(round, st)
                  IN  Ok([w EXCEPT !.hashing_account[index] =
                             [acc EXCEPT !.state = << fr_to_u256_le(st1[1]),
                                                      fr_to_u256_le(st1[2]),
                                                      fr_to_u256_le(st1[3]) >>,
                                         !.round = next_round(round)],
                         !.hist.hash_steps[index] = @ + 1])
             ELSE Err("ComputationIsAlreadyFinished", w)

\* (mutant) a full commitment queue does not stop the finalize
finalize_base_commitment_hash_DropsOnFull(w, index) ==
    IF ~is_valid(index, HASH_MAX_INSTANCES) THEN Err("InvalidAccount", w)
    ELSE IF ~w.hashing_account[index].is_active
    THEN Err("ComputationIsNotYetFinished", w)
    ELSE IF w.hashing_account[index].round # w.hashing_account[index].total_rounds
    THEN Err("ComputationIsNotYetFinished", w)
    ELSE LET acc == w.hashing_account[index]
             result == acc.state[1]
             w1 == IF acc.request.commitment = result
                   THEN Outcome(w, enqueue_commitment(w, acc.request.id, result))
                   ELSE w
         IN  Ok([w1 EXCEPT !.hashing_account[index].is_active = FALSE])

\* (mutant) the round is not compared with the total
finalize_base_commitment_hash_AnyRound(w, index) ==
    IF ~is_valid(index, HASH_MAX_INSTANCES) THEN Err("InvalidAccount", w)
    ELSE IF ~w.hashing_account[index].is_active
    THEN Err("ComputationIsNotYetFinished", w)
    ELSE LET acc == w.hashing_account[index]
             result == acc.state[1]
         IN  Then(IF acc.request.commitment = result
                  THEN enqueue_commitment(w, acc.request.id, result)
                  ELSE Ok(w),
                  LAMBDA w1 : Ok([w1 EXCEPT !.hashing_account[index].is_active = FALSE]))

\* (mutant) the result is queued whatever the request claimed
finalize_base_commitment_hash_Unchecked(w, index) ==
    IF ~is_valid(index, HASH_MAX_INSTANCES) THEN Err("InvalidAccount", w)
    ELSE IF ~w.hashing_account[index].is_active
    THEN Err("ComputationIsNotYetFinished", w)
    ELSE IF w.hashing_account[index].round # w.hashing_account[index].total_rounds
    THEN Err("ComputationIsNotYetFinished", w)
    ELSE LET acc == w.hashing_account[index]
             result == acc.state[1]
         IN  Then(enqueue_commitment(w, acc.request.id, result),
                  LAMBDA w1 : Ok([w1 EXCEPT !.hashing_account[index].is_active = FALSE]))

finalize_base_commitment_hash(w, index) ==
    IF ~is_valid(index, HASH_MAX_INSTANCES) THEN Err("InvalidAccount", w)
    ELSE IF ~w.hashing_account[index].is_active
    THEN Err("ComputationIsNotYetFinished", w)
    ELSE IF w.hashing_account[index].round # w.hashing_account[index].total_rounds
    THEN Err("ComputationIsNotYetFinished", w)
    ELSE LET acc == w.hashing_account[index]
             result == acc.state[1]
         IN  Then(IF acc.request.commitment = result
                  THEN enqueue_commitment(w, acc.request.id, result)
                  ELSE Ok(w),
                  LAMBDA w1 : Ok([w1 EXCEPT !.hashing_account[index].is_active = FALSE]))

\* ------------------------------------------------ full commitment hashing
EmptyCommitmentHashingAccount ==
    [is_active |-> FALSE, round |-> 0, total_rounds |-> TOTAL_POSEIDON_ROUNDS,
     request |-> <<0, 0>>, fee_payer |-> "none"]

\* CommitmentHashingAccount::reset(request, fee_payer)
reset_commitment_hashing_account(acc, request, fee_payer) ==
    [is_active |-> TRUE, round |-> 0, total_rounds |-> TOTAL_POSEIDON_ROUNDS,
     request |-> request, fee_payer |-> fee_payer]

init_commitment_hash(w, fee_payer) ==
    IF w.commitment_hashing_account.is_active
    THEN Err("ComputationIsNotYetFinished", w)
    ELSE LET d == dequeue_first(w.commitment_queue)
         IN  IF d.err # "Ok" THEN Err(d.err, w)
             ELSE Ok([w EXCEPT !.commitment_queue = d.q,
                               !.commitment_hashing_account =
                                   reset_commitment_hashing_account(@, d.item, fee_payer)])

\* panic!("TODO") aborts the call before the round is written
compute_commitment_hash(w) ==
    IF ~w.commitment_hashing_account.is_active
    THEN Err("ComputationIsNotYetFinished", w)
    ELSE Err("Panic", w)

finalize_commitment_hash(w) ==
    IF ~w.commitment_hashing_account.is_active
    THEN Err("ComputationIsNotYetFinished", w)
    ELSE IF w.commitment_hashing_account.round # w.commitment_hashing_account.total_rounds
    THEN Err("ComputationIsNotYetFinished", w)
    ELSE Err("Panic", w)

\* ---------------------------------------------------------------- runtime
Commit(w) ==
    /\ send_queue' = w.send_queue
    /\ merge_queue' = w.merge_queue
    /\ migrate_queue' = w.migrate_queue
    /\ finalize_send_queue' = w.finalize_send_queue
    /\ commitment_queue' = w.commitment_queue
    /\ base_commitment_queue' = w.base_commitment_queue
    /\ verification_account' = w.verification_account
    /\ hashing_account' = w.hashing_account
    /\ commitment_hashing_account' = w.commitment_hashing_account
    /\ nullifier_account' = w.nullifier_account
    /\ pending_nullifiers' = w.pending_nullifiers
    /\ hist' = w.hist

\* one invocation on the current accounts
Execute(r) == Commit(Outcome(World, r))

Init ==
    /\ send_queue = << >>
    /\ merge_queue = << >>
    /\ migrate_queue = << >>
    /\ finalize_send_queue = << >>
    /\ commitment_queue = << >>
    /\ base_commitment_queue = << >>
    /\ verification_account = [i \in Slots |-> EmptyVerificationAccount]
    /\ hashing_account = [i \in HashSlots |-> EmptyHashingAccount]
    /\ commitment_hashing_account = EmptyCommitmentHashingAccount
    /\ nullifier_account = [t \in Trees |-> {}]
    /\ pending_nullifiers = [t \in Trees |-> << >>]
    /\ hist = InitHist

EnqueueSendProof ==
    /\ hist.next_id <= MaxRequests
    /\ Execute(enqueue_request(World, "send_queue", SendRequest))

EnqueueMergeProof ==
    /\ hist.next_id <= MaxRequests
    /\ Execute(enqueue_request(World, "merge_queue", MergeRequest))

EnqueueMigrateProof ==
    /\ hist.next_id <= MaxRequests
    /\ Execute(enqueue_request(World, "migrate_queue", MigrateRequest))

EnqueueBaseCommitment ==
    /\ hist.next_id <= MaxRequests
    /\ \E r \in {BaseCommitmentRequest, FlawedBaseCommitmentRequest} :
           Execute(enqueue_request(World, "base_commitment_queue", r))

InitSendProof ==
    \E i \in SlotArgs : Execute(init_send_proof(World, i))

InitMergeProof ==
    \E i \in SlotArgs : Execute(init_merge_proof(World, i))

InitMigrateProof ==
    \E i \in SlotArgs : Execute(init_migrate_proof(World, i))

TreeIndexArgs == { <<t>> : t \in Trees } \cup { <<t, u>> : t, u \in Trees }

ValidateNullifierHashes ==
    \E i \in SlotArgs, ti \in TreeIndexArgs, allow \in BOOLEAN :
        Execute(init_verification_validate_nullifier_hashes(World, i, ti, allow))

InitVerificationProof ==
    \E i \in SlotArgs, proof \in Proofs :
        Execute(init_verification_proof(World, i, proof))

ComputeProof ==
    \E i \in SlotArgs : Execute(compute_proof(World, i))

FinalizeProofBinary ==
    \E i \in SlotArgs, t \in Trees, u \in Trees, payer \in FeePayers :
        Execute(finalize_proof_binary(World, i, <<t, u>>, payer))

FinalizeProofUnary ==
    \E i \in SlotArgs, t \in Trees, payer \in FeePayers :
        Execute(finalize_proof_unary(World, i, t, payer))

InitBaseCommitmentHash ==
    \E i \in HashSlotArgs, payer \in {"p1"} :
        Execute(init_base_commitment_hash(World, payer, i))

ComputeBaseCommitmentHash ==
    \E i \in HashSlotArgs :
        Execute(compute_base_commitment_hash(World, i))

FinalizeBaseCommitmentHash ==
    \E i \in HashSlotArgs :
        Execute(finalize_base_commitment_hash(World, i))

InitCommitmentHash ==
    \E payer \in {"p1"} :
        Execute(init_commitment_hash(World, payer))

ComputeCommitmentHash ==
    Execute(compute_commitment_hash(World))

FinalizeCommitmentHash ==
    Execute(finalize_commitment_hash(World))

Next ==
    \/ EnqueueSendProof
    \/ EnqueueMergeProof
    \/ EnqueueMigrateProof
    \/ EnqueueBaseCommitment
    \/ InitSendProof
    \/ InitMergeProof
    \/ InitMigrateProof
    \/ ValidateNullifierHashes
    \/ InitVerificationProof
    \/ ComputeProof
    \/ FinalizeProofBinary
    \/ FinalizeProofUnary
    \/ InitBaseCommitmentHash
    \/ ComputeBaseCommitmentHash
    \/ FinalizeBaseCommitmentHash
    \/ InitCommitmentHash
    \/ ComputeCommitmentHash
    \/ FinalizeCommitmentHash

Spec == Init /\ [][Next]_vars


\* ======================================================================
\* Properties
\* ======================================================================
Acc(i) == verification_account[i]
Bound(i) == Acc(i).request.id \in Ids
Staged(i) == Bound(i) /\ Acc(i).state = "ProofSetup"
Verified(i) == Staged(i) /\ Acc(i).is_active /\ Acc(i).is_verified
Rejected(i) == Staged(i) /\ ~Acc(i).is_active
Resolved(i) == Verified(i) \/ Rejected(i)
Computing(i) == Staged(i) /\ Acc(i).is_active /\ ~Acc(i).is_verified
Finalized(i) == Bound(i) /\ hist.finalized[Acc(i).request.id] >= 1

FinalizeBinaryCalls(i) ==
    { finalize_proof_binary(World, i, <<t, u>>, payer) :
          t \in Trees, u \in Trees, payer \in FeePayers }
FinalizeUnaryCalls(i) ==
    { finalize_proof_unary(World, i, t, payer) : t \in Trees, payer \in FeePayers }
FinalizeCalls(i) == FinalizeBinaryCalls(i) \cup FinalizeUnaryCalls(i)

\* C1: exactly-once finalize.  Once a finalize has succeeded on a slot, every
\* further finalize call on that slot (any tree indices, any fee payer) fails,
\* and over the whole run a bound request has at most one successful
\* finalize, at most one commitment and one FinalizeSend intent enqueued, and
\* at most one insertion per nullifier hash.
C1_ExactlyOnceFinalize ==
    /\ \A id \in Ids :
           /\ hist.finalized[id] <= 1
           /\ hist.commitments[id] <= 1
           /\ hist.sends[id] <= 1
    /\ \A i \in Slots :
           Bound(i) =>
               /\ hist.inserts[Acc(i).request.id] <= Len(Acc(i).request.nullifier_hashes)
               /\ Finalized(i) => \A r \in FinalizeCalls(i) : r.err # "Ok"

C1_Witness ==
    \E i \in Slots :
        /\ Finalized(i)
        /\ Acc(i).request.kind = "Send"
        /\ hist.sends[Acc(i).request.id] = 1
        /\ hist.commitments[Acc(i).request.id] = 1
        /\ hist.inserts[Acc(i).request.id] = 2


\* request of slot i spends nullifier hash h in tree t
Spends(i, t, h) ==
    \E k \in 1 .. Len(Acc(i).request.nullifier_hashes) :
        Acc(i).request.tree_indices[k] = t /\ Acc(i).request.nullifier_hashes[k] = h

PendingCount(t, h) ==
    IF h \in DOMAIN pending_nullifiers[t] THEN pending_nullifiers[t][h] ELSE 0

\* C2: double-spend guard.  Over the whole run a nullifier hash is inserted
\* into the permanent set of a tree at most once and stays there; at most one
\* finalized job spends it; a verified job spending a hash that is already
\* in the set cannot be finalized, whatever the arguments of the call.
C2_DoubleSpendGuard ==
    \A t \in Trees, h \in Hashes :
        /\ hist.tree_commits[t][h] <= 1
        /\ hist.tree_commits[t][h] = 1 <=> h \in nullifier_account[t]
        /\ Cardinality({ i \in Slots : Finalized(i) /\ Spends(i, t, h) }) <= 1
        /\ \A i \in Slots : (Finalized(i) /\ Spends(i, t, h)) => h \in nullifier_account[t]
        /\ \A i \in Slots :
               (Verified(i) /\ ~Finalized(i) /\ Spends(i, t, h) /\ h \in nullifier_account[t])
                   => \A r \in FinalizeCalls(i) : r.err # "Ok"

\* two jobs claimed the same hash (duplicates allowed), one was finalized and
\* the other one is verified
C2_Witness ==
    \E i, j \in Slots, t \in Trees, h \in Hashes :
        /\ i # j
        /\ Finalized(i) /\ Spends(i, t, h)
        /\ Verified(j) /\ ~Finalized(j) /\ Spends(j, t, h)
        /\ PendingCount(t, h) = 2
        /\ h \in nullifier_account[t]


\* ---- the verification evaluated in one pass
RECURSIVE SumInputs(_, _)
SumInputs(public_inputs, k) ==
    IF k = 0 THEN gamma_abc_g1(0)
    ELSE SumInputs(public_inputs, k - 1) + public_inputs[k] * gamma_abc_g1(k)

\* the Miller loop over the coefficients from .. to - 1, folded by halves
RECURSIVE MillerFold(_, _, _, _)
MillerFold(points, f, from, to) ==
    IF from >= to THEN f
    ELSE IF to = from + 1 THEN (f * f * ell(points, from)) % Q
    ELSE LET mid == (from + to) \div 2
             g == MillerFold(points, f, from, mid)
         IN  IF g \in 0 .. Q - 1 THEN MillerFold(points, g, mid, to) ELSE g

RECURSIVE Pow(_, _)
Pow(x, n) ==
    IF n = 0 THEN 1
    ELSE LET h == Pow(x, n \div 2)
         IN  (h * h * (IF n % 2 = 1 THEN x ELSE 1)) % Q

OnePass(public_inputs, a, b, c) ==
    LET prepared == SumInputs(public_inputs, Len(public_inputs)) % Q
        miller == MillerFold([a |-> a, b |-> b, c |-> c, prepared_inputs |-> prepared],
                             1, 0, COEFFS)
        f == Pow(miller, 3 ^ FINAL_EXPONENTIATION_IXS)
    IN  [prepared_inputs |-> prepared, f |-> f, verified |-> (f = ALPHA_BETA)]

\* C3: verification determinism.  The registers and the verification result
\* of a resolved slot, computed by separate compute calls interleaved with
\* calls on other slots, equal those of the one-pass evaluation of the bound
\* public inputs and the staged proof.
C3_VerificationDeterminism ==
    \A i \in Slots :
        Resolved(i) =>
            LET o == OnePass(Acc(i).request.public_inputs, Acc(i).a, Acc(i).b, Acc(i).c)
            IN  /\ Acc(i).public_input = Acc(i).request.public_inputs
                /\ Acc(i).prepared_inputs = o.prepared_inputs
                /\ Acc(i).coeff_index = COEFFS
                /\ Acc(i).f = o.f
                /\ Verified(i) <=> o.verified
                /\ Rejected(i) <=> ~o.verified

C3_Witness ==
    \E i, j \in Slots :
        /\ i # j
        /\ Verified(i) /\ Acc(i).request.kind = "Send"
        /\ Rejected(j) /\ hist.steps[j] = TotalRounds(Acc(j))

\* C4: round monotonicity.  A successful compute call raises the round of its
\* slot by exactly 1; the round of a verification or hash slot changes only
\* that way or by an init binding a new request (round 0); a failing compute
\* call changes no account.
C4_RoundMonotonicity ==
    /\ [](/\ \A i \in SlotArgs :
                compute_proof(World, i).err # "Ok"
                    => Outcome(World, compute_proof(World, i)) = World
          /\ \A i \in HashSlotArgs :
                compute_base_commitment_hash(World, i).err # "Ok"
                    => Outcome(World, compute_base_commitment_hash(World, i)) = World
          /\ \A i \in Slots : Acc(i).round = hist.steps[i]
          /\ \A i \in HashSlots : hashing_account[i].round = hist.hash_steps[i])
    /\ [][ /\ \A i \in Slots :
                  /\ hist'.steps[i] = hist.steps[i] + 1
                         => verification_account'[i].round = Acc(i).round + 1
                  /\ verification_account'[i].round # Acc(i).round
                         => \/ /\ verification_account'[i].round = Acc(i).round + 1
                               /\ hist'.steps[i] = hist.steps[i] + 1
                               /\ verification_account'[i].request = Acc(i).request
                            \/ /\ verification_account'[i].round = 0
                               /\ verification_account'[i].request.id # Acc(i).request.id
           /\ \A i \in HashSlots :
                  /\ hist'.hash_steps[i] = hist.hash_steps[i] + 1
                         => hashing_account'[i].round = hashing_account[i].round + 1
                  /\ hashing_account'[i].round # hashing_account[i].round
                         => \/ /\ hashing_account'[i].round = hashing_account[i].round + 1
                               /\ hist'.hash_steps[i] = hist.hash_steps[i] + 1
                               /\ hashing_account'[i].request = hashing_account[i].request
                            \/ /\ hashing_account'[i].round = 0
                               /\ hashing_account'[i].request.id
                                      # hashing_account[i].request.id
         ]_vars

C4_Witness ==
    \E i \in Slots, j \in HashSlots :
        /\ Computing(i) /\ Acc(i).round >= 2 /\ hist.steps[i] = Acc(i).round
        /\ hashing_account[j].is_active
        /\ hashing_account[j].round >= 1
        /\ hist.hash_steps[j] = hashing_account[j].round

\* C5: compute is fenced.  compute_proof succeeds only on a staged, active,
\* not yet resolved slot whose round is below the total of its rounds; every
\* other call (slot resolved, nothing staged, invalid index) fails and leaves
\* the round, the registers and the verified flag as they were.
C5_ComputeFenced ==
    \A i \in SlotArgs :
        LET r == compute_proof(World, i)
        IN  /\ r.err = "Ok" =>
                   i \in Slots /\ Computing(i) /\ Acc(i).round < TotalRounds(Acc(i))
            /\ (i \in Slots /\ (Resolved(i) \/ ~Staged(i))) => r.err # "Ok"
            /\ r.err # "Ok" =>
                   Outcome(World, r).verification_account = verification_account

C5_Witness ==
    \E i, j \in Slots :
        /\ Verified(i) /\ compute_proof(World, i).err = "ComputationIsAlreadyFinished"
        /\ Bound(j) /\ ~Staged(j) /\ compute_proof(World, j).err # "Ok"


ValidateCalls(i) ==
    { init_verification_validate_nullifier_hashes(World, i, ti, allow) :
          ti \in TreeIndexArgs, allow \in BOOLEAN }
StageCalls(i) == { init_verification_proof(World, i, proof) : proof \in Proofs }

\* C6: order of the setup states.  A slot is in state None after init, a
\* successful validation of the nullifier hashes takes it from None to
\* NullifiersChecked, staging the proof takes it from NullifiersChecked to
\* ProofSetup with a, b, c the supplied points, and rounds are computed only
\* in ProofSetup; validation or staging called in any other state fails.
C6_SetupOrder ==
    /\ [](\A i \in Slots :
            /\ Acc(i).state \in {"None", "NullifiersChecked", "ProofSetup"}
            /\ Acc(i).state # "ProofSetup" =>
                   /\ Acc(i).round = 0 /\ hist.steps[i] = 0
                   /\ Acc(i).a = 0 /\ Acc(i).b = 0 /\ Acc(i).c = 0
                   /\ compute_proof(World, i).err # "Ok"
            /\ (~Bound(i) \/ Acc(i).state # "None") =>
                   \A r \in ValidateCalls(i) : r.err # "Ok"
            /\ (~Bound(i) \/ Acc(i).state # "NullifiersChecked") =>
                   \A r \in StageCalls(i) : r.err # "Ok")
    /\ [][ \A i \in Slots :
             LET acc == Acc(i)
                 acc1 == verification_account'[i]
             IN  /\ acc1.request.id # acc.request.id =>
                        acc1.state = "None" /\ acc1.is_active
                 /\ (acc1.request.id = acc.request.id /\ acc1.state # acc.state) =>
                        \/ /\ acc.state = "None" /\ acc1.state = "NullifiersChecked"
                           /\ acc1 = [acc EXCEPT !.state = "NullifiersChecked"]
                        \/ /\ acc.state = "NullifiersChecked" /\ acc1.state = "ProofSetup"
                           /\ \E proof \in Proofs :
                                  acc1 = [acc EXCEPT !.a = proof.a, !.b = proof.b,
                                                     !.c = proof.c, !.state = "ProofSetup"]
                 /\ (acc1.request.id = acc.request.id /\ acc1.state = acc.state) =>
                        <<acc1.a, acc1.b, acc1.c>> = <<acc.a, acc.b, acc.c>>
         ]_vars

C6_Witness ==
    \E i, j \in Slots :
        /\ i # j
        /\ Staged(i) /\ Acc(i).round = 0 /\ <<Acc(i).a, Acc(i).b, Acc(i).c>> = <<5, 2, 3>>
        /\ Bound(j) /\ Acc(j).state = "NullifiersChecked"
        /\ init_verification_validate_nullifier_hashes(
               World, j, Acc(j).request.tree_indices, TRUE).err = "InvalidAccountState"

\* C7: number and order of the rounds.  A slot with a staged proof is resolved
\* exactly when P + COMBINED_MILLER_LOOP_IXS + FINAL_EXPONENTIATION_IXS compute
\* calls have succeeded on it, P being the count fixed at init; the first P
\* rounds prepare the inputs, the next ones run the combined Miller loop, which
\* ends at coefficient index 91, the last ones the final exponentiation, and
\* the proof is neither verified nor rejected before the last round.
C7_RoundsUntilResolved ==
    \A i \in Slots :
        Staged(i) =>
            LET P == Acc(i).prepare_inputs_instructions_count
                M == P + COMBINED_MILLER_LOOP_IXS
                T == M + FINAL_EXPONENTIATION_IXS
                n == hist.steps[i]
            IN  /\ P = Len(Acc(i).request.public_inputs)
                /\ n = Acc(i).round /\ n <= T
                /\ Resolved(i) <=> n = T
                /\ n < T => Computing(i)
                /\ n <= P => /\ Acc(i).coeff_index = 0 /\ Acc(i).f = 1
                /\ n < P => Acc(i).prepared_inputs
                               = SumInputs(Acc(i).public_input, n) % Q
                /\ n >= P => Acc(i).prepared_inputs
                               = SumInputs(Acc(i).public_input, P) % Q
                /\ (P <= n /\ n <= M) =>
                       Acc(i).coeff_index = ((n - P) * COEFFS) \div COMBINED_MILLER_LOOP_IXS
                /\ n < M => Acc(i).coeff_index < 91
                /\ n >= M => Acc(i).coeff_index = 91

C7_Witness ==
    \E i, j \in Slots :
        /\ Verified(i) /\ Acc(i).request.kind = "Send"
        /\ hist.steps[i] = 2 + COMBINED_MILLER_LOOP_IXS + FINAL_EXPONENTIATION_IXS
        /\ Acc(i).coeff_index = 91
        /\ Computing(j)
        /\ hist.steps[j] = TotalRounds(Acc(j)) - 1

InitCalls(i) ==
    { init_send_proof(World, i), init_merge_proof(World, i), init_migrate_proof(World, i) }

\* C9: slot reuse.  After a successful finalize the slot is empty again: it
\* is no longer active, and an init on it succeeds whenever the queue of the
\* init is not empty.
C9_SlotReuse ==
    \A i \in Slots :
        Finalized(i) =>
            /\ ~Acc(i).is_active
            /\ send_queue # << >> => init_send_proof(World, i).err = "Ok"
            /\ merge_queue # << >> => init_merge_proof(World, i).err = "Ok"
            /\ migrate_queue # << >> => init_migrate_proof(World, i).err = "Ok"

\* a finalized job occupies its slot: a request waits and no init can bind it
C9_Occupied ==
    \E i \in Slots :
        /\ Finalized(i) /\ Acc(i).is_active
        /\ send_queue \o merge_queue \o migrate_queue # << >>
        /\ \A r \in InitCalls(i) : r.err \in {"ComputationIsNotYetFinished", "QueueIsEmpty"}

FinalizedNow(i) ==
    /\ Bound(i)
    /\ hist'.finalized[Acc(i).request.id] = hist.finalized[Acc(i).request.id] + 1

\* C10: release of the pending claims.  The finalize of a job lowers the
\* pending count of each of the job's nullifier hashes in its tree by exactly
\* 1, and nothing else lowers a pending count.
C10_PendingReleasedAtFinalize ==
    [][ \A t \in Trees, h \in Hashes :
            /\ \A i \in Slots :
                   (FinalizedNow(i) /\ Spends(i, t, h))
                       => PendingCount(t, h)' = PendingCount(t, h) - 1
            /\ PendingCount(t, h)' < PendingCount(t, h)
                   => \E i \in Slots : FinalizedNow(i) /\ Spends(i, t, h)
      ]_vars

\* a job is finalized and its claims are still pending
C10_StillPending ==
    \E i \in Slots :
        /\ Finalized(i)
        /\ \A t \in Trees, h \in Hashes : Spends(i, t, h) => PendingCount(t, h) >= 1


\* the bound request of slot i claims a hash that is already pending in its tree
ClaimsPending(i) ==
    \E t \in Trees, h \in Hashes : Spends(i, t, h) /\ PendingCount(t, h) >= 1

\* slot i waits for the validation of its nullifier hashes
AwaitsValidation(i) == Bound(i) /\ Acc(i).is_active /\ Acc(i).state = "None"

\* C11: duplicate-nullifier rejection.  Validation without duplicates fails
\* whenever a nullifier hash of the bound request is already pending in its
\* tree (the first, the second or both), with NullifierAlreadyExists when the
\* call is otherwise in order, and the failing call changes no pending map
\* and no slot; two bound jobs that were both validated without duplicates
\* never claim the same hash in the same tree.
C11_DuplicateNullifierRejected ==
    /\ \A i \in Slots, ti \in TreeIndexArgs :
           LET r == init_verification_validate_nullifier_hashes(World, i, ti, FALSE)
           IN  (Bound(i) /\ ClaimsPending(i)) =>
                   /\ r.err # "Ok"
                   /\ (AwaitsValidation(i) /\ ti = Acc(i).request.tree_indices)
                          => r.err = "NullifierAlreadyExists"
                   /\ Outcome(World, r).pending_nullifiers = pending_nullifiers
                   /\ Outcome(World, r).verification_account = verification_account
    /\ \A i, j \in Slots :
           (/\ i # j /\ Bound(i) /\ Bound(j)
            /\ Acc(i).state # "None" /\ Acc(j).state # "None"
            /\ Acc(i).request.id \in hist.strict
            /\ Acc(j).request.id \in hist.strict)
               => ~ \E t \in Trees, h \in Hashes : Spends(i, t, h) /\ Spends(j, t, h)

\* a Send job waits for validation, its first hash is free and its second is
\* pending for a job validated without duplicates: the call fails
C11_Witness ==
    \E i, j \in Slots :
        /\ i # j
        /\ AwaitsValidation(i) /\ Acc(i).request.kind = "Send"
        /\ PendingCount(0, 1) = 0 /\ PendingCount(1, 2) = 1
        /\ Acc(j).request.id \in hist.strict /\ Spends(j, 1, 2)
        /\ init_verification_validate_nullifier_hashes(World, i, <<0, 1>>, FALSE).err
               = "NullifierAlreadyExists"


\* the bound request of slot i needs a new entry in a pending map that is full
NeedsRoom(i) ==
    \E t \in Trees, h \in Hashes :
        /\ Spends(i, t, h) /\ PendingCount(t, h) = 0
        /\ Cardinality(DOMAIN pending_nullifiers[t]) >= MAX_ELEMENTS_COUNT

\* this step validates the nullifier hashes of slot i
ValidatedNow(i) ==
    /\ AwaitsValidation(i)
    /\ verification_account'[i].state = "NullifiersChecked"
    /\ verification_account'[i].request = Acc(i).request

\* C12: duplicates are counted.  Validation with duplicates allowed succeeds
\* on a slot awaiting validation although hashes of its request are pending
\* (it fails only when a new entry is needed in a full map); a successful
\* validation raises the pending count of each hash of the request in its
\* tree by exactly 1, adds a map entry only for a hash that was not pending,
\* and changes no other count; a failing validation changes no count.
C12_DuplicatesCounted ==
    /\ [](\A i \in Slots :
            /\ (AwaitsValidation(i) /\ ~NeedsRoom(i)) =>
                   init_verification_validate_nullifier_hashes(
                       World, i, Acc(i).request.tree_indices, TRUE).err = "Ok"
            /\ \A r \in ValidateCalls(i) :
                   r.err # "Ok" =>
                       Outcome(World, r).pending_nullifiers = pending_nullifiers)
    /\ [][ /\ \A i \in Slots :
                  ValidatedNow(i) =>
                      \A t \in Trees :
                          /\ \A h \in Hashes :
                                 PendingCount(t, h)' = PendingCount(t, h)
                                     + (IF Spends(i, t, h) THEN 1 ELSE 0)
                          /\ Cardinality(DOMAIN pending_nullifiers'[t])
                                 = Cardinality(DOMAIN pending_nullifiers[t])
                                     + Cardinality({ h \in Hashes :
                                           Spends(i, t, h) /\ PendingCount(t, h) = 0 })
           /\ (\A i \in Slots : ~ValidatedNow(i))
                  => pending_nullifiers' = pending_nullifiers
         ]_vars

\* two jobs hold the same hash of tree 1: one entry, count 2
C12_Witness ==
    \E i, j \in Slots :
        /\ i # j
        /\ Acc(i).state = "NullifiersChecked" /\ Acc(j).state = "NullifiersChecked"
        /\ Spends(i, 1, 2) /\ Spends(j, 1, 2)
        /\ PendingCount(1, 2) = 2
        /\ Cardinality(DOMAIN pending_nullifiers[1]) = 1


\* C13: a computation error rejects the proof.  After a compute call has
\* failed because the proof cannot be decoded, the slot is rejected: it is no
\* longer active and a further compute call on it fails.
C13_ComputationErrorRejects ==
    \A i \in Slots :
        LET r == compute_proof(World, i)
            after == Outcome(World, r)
        IN  r.err = "CouldNotProcessProof" =>
                /\ ~after.verification_account[i].is_active
                /\ compute_proof(after, i).err # "Ok"

\* the proof of slot i cannot be decoded: the compute call fails, the slot
\* stays active at the same round and is neither verified nor rejected
C13_NotCancelled ==
    \E i \in Slots :
        /\ Computing(i)
        /\ Acc(i).round = Acc(i).prepare_inputs_instructions_count
        /\ compute_proof(World, i).err = "CouldNotProcessProof"
        /\ Outcome(World, compute_proof(World, i)) = World
        /\ \A r \in FinalizeCalls(i) \cup InitCalls(i) : r.err # "Ok"


\* every call of every operation on the current accounts
EnqueueCalls ==
    { enqueue_request(World, "send_queue", SendRequest),
      enqueue_request(World, "merge_queue", MergeRequest),
      enqueue_request(World, "migrate_queue", MigrateRequest),
      enqueue_request(World, "base_commitment_queue", BaseCommitmentRequest),
      enqueue_request(World, "base_commitment_queue", FlawedBaseCommitmentRequest) }
ProofCalls ==
    UNION { InitCalls(i) \cup ValidateCalls(i) \cup StageCalls(i)
                \cup {compute_proof(World, i)} \cup FinalizeCalls(i) : i \in SlotArgs }
HashCalls ==
    UNION { { init_base_commitment_hash(World, "p1", i),
              compute_base_commitment_hash(World, i),
              finalize_base_commitment_hash(World, i) } : i \in HashSlotArgs }
        \cup { init_commitment_hash(World, "p1"), compute_commitment_hash(World),
               finalize_commitment_hash(World) }
AllCalls == EnqueueCalls \cup ProofCalls \cup HashCalls

RequestQueues == {"send_queue", "merge_queue", "migrate_queue", "base_commitment_queue"}

\* the request queue that init serves for a request of the given kind
QueueOf(kind) ==
    IF kind = "Send" THEN "send_queue"
    ELSE IF kind = "Merge" THEN "merge_queue"
    ELSE IF kind = "Migrate" THEN "migrate_queue"
    ELSE "base_commitment_queue"

\* number of queue entries that hold request id
Queued(id) ==
    Cardinality({ <<q, k>> \in RequestQueues \X (1 .. CAPACITY) :
                      k <= Len(World[q]) /\ World[q][k].id = id })

Admitted == 1 .. hist.next_id - 1

\* C15: init binds the oldest request.  An init that succeeds on a slot binds
\* the head of its queue and removes exactly that entry; no request is bound
\* to two slots, and every admitted request is either queued once or has been
\* bound exactly once; init on an empty queue fails with QueueIsEmpty and
\* leaves the slot as it was.
C15_InitBindsOldest ==
    /\ [](/\ \A id \in Admitted : Queued(id) + hist.bound[id] = 1
          /\ \A i, j \in Slots :
                 (i # j /\ Bound(i) /\ Bound(j))
                     => Acc(i).request.id # Acc(j).request.id
          /\ \A i \in Slots : Bound(i) => hist.bound[Acc(i).request.id] = 1
          /\ \A i \in Slots :
                 ~Acc(i).is_active =>
                     /\ send_queue = << >> =>
                            init_send_proof(World, i).err = "QueueIsEmpty"
                     /\ merge_queue = << >> =>
                            init_merge_proof(World, i).err = "QueueIsEmpty"
                     /\ migrate_queue = << >> =>
                            init_migrate_proof(World, i).err = "QueueIsEmpty"
                     /\ \A r \in InitCalls(i) :
                            r.err # "Ok" => Outcome(World, r).verification_account
                                                = verification_account)
    /\ [][ /\ \A i \in Slots :
                  verification_account'[i].request # Acc(i).request =>
                      LET q == QueueOf(verification_account'[i].request.kind)
                      IN  /\ World[q] # << >>
                          /\ verification_account'[i].request = Head(World[q])
                          /\ World'[q] = Tail(World[q])
                          /\ \A p \in RequestQueues \ {q} : World'[p] = World[p]
           /\ \A i \in HashSlots :
                  hashing_account'[i].request # hashing_account[i].request =>
                      /\ base_commitment_queue # << >>
                      /\ hashing_account'[i].request = Head(base_commitment_queue)
                      /\ base_commitment_queue' = Tail(base_commitment_queue)
         ]_vars

\* the older of two Send requests is bound, the younger one is still queued,
\* and an init of another kind finds its queue empty
C15_Witness ==
    \E i, j \in Slots :
        /\ i # j
        /\ Bound(i) /\ Acc(i).request.kind = "Send" /\ Acc(i).request.id = 1
        /\ Len(send_queue) = 1 /\ send_queue[1].id = 2
        /\ ~Bound(j) /\ init_merge_proof(World, j).err = "QueueIsEmpty"
        /\ init_send_proof(World, j).err = "Ok"


\* C16: guards of init.  An init of a verification slot or of a base
\* commitment hash slot fails with InvalidAccount when the index is not below
\* the number of instances, and with ComputationIsNotYetFinished when the
\* slot is active with a job; the failing call has dequeued nothing and has
\* written nothing to the slot.
C16_InitGuards ==
    /\ \A i \in SlotArgs : \A r \in InitCalls(i) :
           /\ i \notin Slots => r.err = "InvalidAccount" /\ r.w = World
           /\ (i \in Slots /\ Acc(i).is_active) =>
                  r.err = "ComputationIsNotYetFinished" /\ r.w = World
           /\ r.err = "Ok" => i \in Slots /\ ~Acc(i).is_active
    /\ \A i \in HashSlotArgs :
           LET r == init_base_commitment_hash(World, "p1", i)
           IN  /\ i \notin HashSlots => r.err = "InvalidAccount" /\ r.w = World
               /\ (i \in HashSlots /\ hashing_account[i].is_active) =>
                      r.err = "ComputationIsNotYetFinished" /\ r.w = World
               /\ r.err = "Ok" => i \in HashSlots /\ ~hashing_account[i].is_active

\* a request waits in the send queue; init fails on the slot that computes
\* a proof and on the index that is no slot, and succeeds on the free slot
C16_Witness ==
    \E i, j \in Slots :
        /\ i # j
        /\ Computing(i) /\ Acc(i).round >= 1
        /\ send_queue # << >>
        /\ init_send_proof(World, i).err = "ComputationIsNotYetFinished"
        /\ init_send_proof(World, MAX_INSTANCES).err = "InvalidAccount"
        /\ init_send_proof(World, j).err = "Ok"


\* ------------------------------------------------- one queue on its own
\* send_queue is the queue; hist records what was enqueued and what was
\* returned by dequeue_first, and the result of the last call
QueueItems == { [SendRequest EXCEPT !.id = k] : k \in 1 .. MaxItems }

QueueInit ==
    /\ Init!1 /\ Init!2 /\ Init!3 /\ Init!4 /\ Init!5 /\ Init!6
    /\ Init!7 /\ Init!8 /\ Init!9 /\ Init!10 /\ Init!11
    /\ hist = [enqueued |-> << >>, dequeued |-> << >>, last |-> "none"]

QueueUnchanged ==
    UNCHANGED << merge_queue, migrate_queue, finalize_send_queue, commitment_queue,
                 base_commitment_queue, verification_account, hashing_account,
                 commitment_hashing_account, nullifier_account, pending_nullifiers >>

QueueEnqueue ==
    \E item \in QueueItems :
        LET e == enqueue(send_queue, item, CAPACITY)
        IN  /\ Len(hist.enqueued) < MaxOps
            /\ send_queue' = e.q
            /\ hist' = [hist EXCEPT
                          !.enqueued = IF e.err = "Ok" THEN Append(@, item) ELSE @,
                          !.last = e.err]
            /\ QueueUnchanged

QueueDequeueFirst ==
    LET d == dequeue_first(send_queue)
    IN  /\ send_queue' = d.q
        /\ hist' = [hist EXCEPT
                      !.dequeued = IF d.err = "Ok" THEN Append(@, d.item) ELSE @,
                      !.last = d.err]
        /\ QueueUnchanged

QueueNext == QueueEnqueue \/ QueueDequeueFirst

QueueSpec == QueueInit /\ [][QueueNext]_vars

\* C17: FIFO service.  Over any sequence of enqueue and dequeue_first calls
\* on one queue, the items returned so far followed by the items still queued
\* are the successfully enqueued items in their order; dequeue_first returns
\* the oldest item, and on an empty queue fails with QueueIsEmpty and leaves
\* the queue empty.
C17_FifoService ==
    /\ hist.enqueued = hist.dequeued \o send_queue
    /\ LET d == dequeue_first(send_queue)
       IN  /\ send_queue = << >> => d.err = "QueueIsEmpty" /\ d.q = << >>
           /\ send_queue # << >> =>
                  /\ d.err = "Ok"
                  /\ d.item = hist.enqueued[Len(hist.dequeued) + 1]
                  /\ d.q = Tail(send_queue)

\* more items than the capacity went through the queue in order, the last
\* dequeue_first found the queue empty
C17_Witness ==
    /\ Len(hist.dequeued) = MaxOps
    /\ hist.dequeued = hist.enqueued
    /\ hist.dequeued[1].id # hist.dequeued[2].id
    /\ hist.dequeued[2].id # hist.dequeued[3].id
    /\ send_queue = << >>
    /\ hist.last = "QueueIsEmpty"


\* ------------------------------------------------------------ capacities
QueueNames == RequestQueues \cup {"finalize_send_queue", "commitment_queue"}
CapacityOf(queue) == IF queue \in RequestQueues THEN CAPACITY ELSE OUT_CAPACITY

\* C18: bounded capacity.  In every reachable state each queue holds at most
\* its capacity; enqueue succeeds, appending the item at the tail, exactly
\* when the queue holds fewer items than its capacity, and on a full queue
\* it fails with QueueIsFull and leaves the contents as they are.
C18_BoundedCapacity ==
    \A n \in QueueNames :
        LET q == World[n]
            c == CapacityOf(n)
            e == enqueue(q, NoRequest, c)
        IN  /\ Len(q) <= c
            /\ e.err = "Ok" <=> Len(q) < c
            /\ Len(q) < c => e.q = q \o << NoRequest >>
            /\ Len(q) = c => e.err = "QueueIsFull" /\ e.q = q

\* the commitment queue is full and the finalize of a verified request
\* fails on it, while another queue still takes an item
C18_Witness ==
    /\ Len(commitment_queue) = OUT_CAPACITY
    /\ \E i \in Slots :
           /\ Verified(i)
           /\ \E r \in FinalizeCalls(i) : r.err = "QueueIsFull"
    /\ \E n \in RequestQueues :
           /\ Len(World[n]) < CAPACITY
           /\ enqueue(World[n], NoRequest, CAPACITY).q = Append(World[n], NoRequest)


\* ---------------------------------------------------- effects of finalize
\* the nullifier hashes of a request recorded for tree t
HashesFor(request, t) ==
    { request.nullifier_hashes[k] :
          k \in { p \in 1 .. Len(request.tree_indices) : request.tree_indices[p] = t } }

FinalizeSendRequest(request) ==
    [amount |-> request.amount, recipient |-> request.recipient]

\* C19: effects of a successful finalize, by kind.  The finalize of a Send
\* inserts the request's two nullifier hashes into the sets of their two
\* trees, appends the request's commitment and nothing else to the commitment
\* queue, and appends one FinalizeSend intent with the request's amount and
\* recipient; of a Merge inserts the two hashes, appends the commitment and
\* leaves the FinalizeSend queue alone; of a Migrate inserts the one hash and
\* appends the commitment.  Send and Merge finalize through the binary
\* handler only, Migrate through the unary one only.
C19_FinalizeEffects ==
    /\ [](\A i \in Slots :
             /\ (\E r \in FinalizeBinaryCalls(i) : r.err = "Ok") =>
                    Acc(i).request.kind \in {"Send", "Merge"}
             /\ (\E r \in FinalizeUnaryCalls(i) : r.err = "Ok") =>
                    Acc(i).request.kind = "Migrate")
    /\ [][\A i \in Slots : FinalizedNow(i) =>
             LET request == Acc(i).request
             IN  /\ Len(request.nullifier_hashes) =
                        IF request.kind = "Migrate" THEN 1 ELSE 2
                 /\ \A t \in Trees :
                        /\ HashesFor(request, t) \cap nullifier_account[t] = {}
                        /\ nullifier_account'[t] =
                               nullifier_account[t] \cup HashesFor(request, t)
                 /\ Cardinality(UNION { HashesFor(request, t) \X {t} : t \in Trees })
                        = Len(request.nullifier_hashes)
                 /\ commitment_queue' = Append(commitment_queue, request.commitment)
                 /\ IF request.kind = "Send"
                    THEN finalize_send_queue' =
                             Append(finalize_send_queue, FinalizeSendRequest(request))
                    ELSE UNCHANGED finalize_send_queue]_vars

\* a Send has been finalized: its two hashes are spent in trees 0 and 1 and
\* its intent and commitment are queued
C19_Witness ==
    \E i \in Slots :
        /\ Finalized(i)
        /\ Acc(i).request.kind = "Send"
        /\ \A t \in Trees : HashesFor(Acc(i).request, t) \subseteq nullifier_account[t]
        /\ finalize_send_queue = << FinalizeSendRequest(Acc(i).request) >>
        /\ commitment_queue = << Acc(i).request.commitment >>


\* ------------------------------------------------------ tree index check
\* finalize calls on slot i whose tree indices differ from the ones the
\* bound request records, at the first or at the second position
MismatchedBinaryCalls(i) ==
    { finalize_proof_binary(World, i, tu, payer) :
          tu \in { x \in Trees \X Trees :
                      \/ x[1] # Acc(i).request.tree_indices[1]
                      \/ x[2] # Acc(i).request.tree_indices[2] },
          payer \in FeePayers }
MismatchedUnaryCalls(i) ==
    { finalize_proof_unary(World, i, t, payer) :
          t \in Trees \ {Acc(i).request.tree_indices[1]}, payer \in FeePayers }

\* C20: tree index check.  A finalize of a verified request with a tree index
\* that differs from the index the request records at the same position
\* (either of the two for the binary handler, the single one for the unary)
\* fails with InvalidAccount, and the call itself has written nothing: no
\* nullifier hash is inserted and no queue is changed.
C20_TreeIndexMismatch ==
    \A i \in Slots :
        /\ Acc(i).request.kind \in {"Send", "Merge"} =>
               \A r \in MismatchedBinaryCalls(i) :
                   /\ r.err # "Ok"
                   /\ r.w = World
                   /\ finalize_guards(World, i) = "Ok" => r.err = "InvalidAccount"
        /\ Acc(i).request.kind = "Migrate" =>
               \A r \in MismatchedUnaryCalls(i) :
                   /\ r.err # "Ok"
                   /\ r.w = World
                   /\ finalize_guards(World, i) = "Ok" => r.err = "InvalidAccount"

\* a verified Send and a verified Migrate wait for their finalize: the calls
\* with the recorded indices would succeed, the ones with another index fail
C20_Witness ==
    \E i, j \in Slots :
        /\ Verified(i) /\ Acc(i).request.kind = "Send"
        /\ Verified(j) /\ Acc(j).request.kind = "Migrate"
        /\ finalize_proof_binary(World, i, <<0, 1>>, "p1").err = "Ok"
        /\ finalize_proof_binary(World, i, <<0, 0>>, "p1").err = "InvalidAccount"
        /\ finalize_proof_binary(World, i, <<1, 1>>, "p1").err = "InvalidAccount"
        /\ finalize_proof_unary(World, j, 1, "p2").err = "Ok"
        /\ finalize_proof_unary(World, j, 0, "p2").err = "InvalidAccount"


\* --------------------------------------------------------- fee payer check
\* the finalize call of the arity of the request bound to slot i, with the
\* tree indices the request records and the given fee payer
FinalizeAs(i, payer) ==
    LET request == Acc(i).request
    IN  IF request.kind = "Migrate"
        THEN finalize_proof_unary(World, i, request.tree_indices[1], payer)
        ELSE finalize_proof_binary(World, i, request.tree_indices, payer)

\* C21: fee payer check.  A finalize succeeds only for the fee payer recorded
\* in the bound request; a call that supplies another fee payer fails, with
\* InvalidFeePayer when the same call with the recorded fee payer would have
\* succeeded, and after the failure the nullifier sets, the commitment queue
\* and the FinalizeSend queue are as they were before the call.
C21_OnlyRecordedFeePayer ==
    \A i \in Slots : Bound(i) =>
        /\ \A payer \in FeePayers \ {Acc(i).request.fee_payer} :
               /\ \A tu \in Trees \X Trees :
                      finalize_proof_binary(World, i, tu, payer).err # "Ok"
               /\ \A t \in Trees :
                      finalize_proof_unary(World, i, t, payer).err # "Ok"
        /\ \A payer \in FeePayers \ {Acc(i).request.fee_payer} :
               LET r == FinalizeAs(i, payer)
                   after == Outcome(World, r)
               IN  /\ r.err # "Ok"
                   /\ FinalizeAs(i, Acc(i).request.fee_payer).err = "Ok"
                          => r.err = "InvalidFeePayer"
                   /\ after.nullifier_account = nullifier_account
                   /\ after.commitment_queue = commitment_queue
                   /\ after.finalize_send_queue = finalize_send_queue

\* a verified Merge recorded for p1: the finalize with p2 gets as far as the
\* fee payer check, having inserted both hashes and queued the commitment,
\* and fails; the finalize with p1 would succeed
C21_Witness ==
    \E i \in Slots :
        /\ Verified(i) /\ Acc(i).request.kind = "Merge"
        /\ Acc(i).request.fee_payer = "p1"
        /\ FinalizeAs(i, "p1").err = "Ok"
        /\ FinalizeAs(i, "p2").err = "InvalidFeePayer"
        /\ FinalizeAs(i, "p2").w.nullifier_account # nullifier_account
        /\ FinalizeAs(i, "p2").w.commitment_queue # commitment_queue
        /\ FinalizeAs(i, "p2").w.finalize_send_queue = finalize_send_queue


\* ------------------------------------------------ base commitment hashing
HashAcc(i) == hashing_account[i]
HashBound(i) == HashAcc(i).request.id \in Ids
HashComplete(i) ==
    HashBound(i) /\ HashAcc(i).is_active /\ HashAcc(i).round = HashAcc(i).total_rounds

\* C22: result of finalize_base_commitment_hash.  When all rounds are done the
\* first state word is the digest of the request's base commitment and amount.
\* A successful finalize gives a commitment queue with the digest appended
\* when the digest equals the commitment the request claims, and the queue
\* as it was when it does not; a mismatch does not make the call fail.  In
\* both cases the slot is inactive afterwards and init accepts it again.
C22_FinalizeHashResult ==
    \A i \in HashSlots : HashComplete(i) =>
        LET acc == HashAcc(i)
            digest == acc.state[1]
            r == finalize_base_commitment_hash(World, i)
        IN  /\ digest = BaseCommitmentDigest(acc.request.base_commitment,
                                             acc.request.amount)
            /\ acc.request.commitment # digest => r.err = "Ok"
            /\ r.err = "Ok" =>
                   /\ r.w.commitment_queue =
                          IF acc.request.commitment = digest
                          THEN Append(commitment_queue, digest)
                          ELSE commitment_queue
                   /\ ~r.w.hashing_account[i].is_active
                   /\ \A payer \in FeePayers :
                          init_base_commitment_hash(r.w, payer, i).err =
                              IF r.w.base_commitment_queue = << >>
                              THEN "QueueIsEmpty" ELSE "Ok"

\* request 1 claimed a wrong commitment: it went through the hash slot and
\* was finalized without a commitment being queued for it; the slot was
\* initialized again with request 2, whose digest matches and will be queued
C22_Witness ==
    \E i \in HashSlots :
        /\ HashComplete(i)
        /\ HashAcc(i).request.id = 2
        /\ HashAcc(i).request.commitment = HashAcc(i).state[1]
        /\ hist.bound[1] = 1
        /\ \A j \in Slots : ~Bound(j)
        /\ hist.commitments[1] = 0
        /\ commitment_queue = << >>
        /\ finalize_base_commitment_hash(World, i).w.commitment_queue
               = << HashAcc(i).state[1] >>


\* C23: finalize_base_commitment_hash only after all rounds.  An active hash
\* slot has had exactly round successful compute calls since its init, never
\* more than the total; a finalize that succeeds finds the slot active after
\* exactly TOTAL_POSEIDON_ROUNDS of them.  On an inactive slot, or while the
\* round is below the total, finalize fails with ComputationIsNotYetFinished
\* and has written nothing: the hash slot and the commitment queue are
\* unchanged.
C23_FinalizeHashAfterAllRounds ==
    \A i \in HashSlots :
        LET acc == HashAcc(i)
            r == finalize_base_commitment_hash(World, i)
        IN  /\ acc.is_active =>
                   acc.round = hist.hash_steps[i] /\ acc.round <= acc.total_rounds
            /\ acc.total_rounds = TOTAL_POSEIDON_ROUNDS
            /\ r.err = "Ok" =>
                   acc.is_active /\ hist.hash_steps[i] = TOTAL_POSEIDON_ROUNDS
            /\ (~acc.is_active \/ acc.round < acc.total_rounds) =>
                   /\ r.err = "ComputationIsNotYetFinished"
                   /\ r.w = World

\* a hash slot one round short of the total: finalize is refused, one more
\* compute call and it is accepted
C23_Witness ==
    \E i \in HashSlots :
        /\ HashBound(i) /\ HashAcc(i).is_active
        /\ HashAcc(i).round = TOTAL_POSEIDON_ROUNDS - 1
        /\ hist.hash_steps[i] = TOTAL_POSEIDON_ROUNDS - 1
        /\ finalize_base_commitment_hash(World, i).err = "ComputationIsNotYetFinished"
        /\ LET c == compute_base_commitment_hash(World, i)
           IN  c.err = "Ok" /\ finalize_base_commitment_hash(c.w, i).err = "Ok"


\* -------------------------------------------------------- slot isolation
\* every call of an operation that is given verification slot i
SlotCalls(i) ==
    InitCalls(i) \cup ValidateCalls(i) \cup StageCalls(i)
        \cup {compute_proof(World, i)} \cup FinalizeCalls(i)
\* every call of an operation that is given hash slot i
HashSlotCalls(i) ==
    { init_base_commitment_hash(World, payer, i) : payer \in FeePayers }
        \cup { compute_base_commitment_hash(World, i),
               finalize_base_commitment_hash(World, i) }

\* C24: slot isolation.  Whatever an operation on verification slot i writes,
\* failing or not, every other verification slot and every hash slot keeps
\* all its fields; whatever an operation on hash slot i writes, every
\* verification slot and every other hash slot keeps all its fields.  What
\* such an operation changes outside its slot is in the queues, the
\* nullifier sets and the pending maps.
C24_SlotIsolation ==
    /\ \A i \in Slots : \A r \in SlotCalls(i) :
           /\ \A j \in Slots \ {i} : r.w.verification_account[j] = Acc(j)
           /\ DOMAIN r.w.verification_account = Slots
           /\ r.w.hashing_account = hashing_account
           /\ r.w.commitment_hashing_account = commitment_hashing_account
    /\ \A i \in HashSlots : \A r \in HashSlotCalls(i) :
           /\ r.w.verification_account = verification_account
           /\ \A j \in HashSlots \ {i} : r.w.hashing_account[j] = HashAcc(j)
           /\ DOMAIN r.w.hashing_account = HashSlots
           /\ r.w.commitment_hashing_account = commitment_hashing_account

\* two slots compute two different requests at different rounds; a round on
\* the one that is ahead succeeds and writes to its own account
C24_Witness ==
    \E i, j \in Slots :
        /\ i # j /\ Computing(i) /\ Computing(j)
        /\ Acc(i).request.kind # Acc(j).request.kind
        /\ Acc(i).round > Acc(j).round /\ Acc(j).round >= 1
        /\ compute_proof(World, i).err = "Ok"
        /\ compute_proof(World, i).w.verification_account[i] # Acc(i)


\* ------------------------------------------- finalize of an invalid proof
\* the verification of the request bound to slot i resolved to false
ResolvedFalse(i) == Rejected(i) /\ Acc(i).request.id \in hist.rejected

\* C25: finalize of a slot whose verification resolved to false succeeds and
\* frees the slot, inserts no nullifier hash and queues no payment for the
\* recipient.
C25_FinalizeInvalidProof ==
    \A i \in Slots : ResolvedFalse(i) =>
        \E r \in FinalizeCalls(i) :
            /\ r.err = "Ok"
            /\ ~r.w.verification_account[i].is_active
            /\ r.w.nullifier_account = nullifier_account
            /\ r.w.finalize_send_queue = finalize_send_queue

\* the verification of a Send resolved to false after its last round: every
\* finalize call on the slot is refused
C25_Refused ==
    \E i \in Slots :
        /\ ResolvedFalse(i)
        /\ Acc(i).request.kind = "Send"
        /\ hist.steps[i] = Acc(i).round
        /\ \A r \in FinalizeCalls(i) : r.err = "ComputationIsNotYetFinished"


\* ------------------------------------------------ size of the pending map
PendingEntries(t) == Cardinality(DOMAIN pending_nullifiers[t])

\* the validation of slot i with the tree indices of its request
ValidateAs(i, allow_duplicates) ==
    init_verification_validate_nullifier_hashes(World, i, Acc(i).request.tree_indices,
                                                allow_duplicates)

\* C27: bound of the pending map.  The pending map of a tree never holds more
\* than MAX_ELEMENTS_COUNT entries.  On a slot awaiting validation, a
\* validation that has to make a new entry in a map that is already full
\* fails and leaves every pending map as it was (with PendingMapFull when
\* duplicates are allowed); when every map that needs a new entry holds
\* fewer than MAX_ELEMENTS_COUNT, the validation with duplicates allowed
\* succeeds and each new hash is an entry afterwards.
C27_PendingMapBounded ==
    /\ \A t \in Trees : PendingEntries(t) <= MAX_ELEMENTS_COUNT
    /\ \A i \in Slots : AwaitsValidation(i) =>
           /\ NeedsRoom(i) =>
                  /\ \A allow \in BOOLEAN :
                         /\ ValidateAs(i, allow).err # "Ok"
                         /\ Outcome(World, ValidateAs(i, allow)).pending_nullifiers
                                = pending_nullifiers
                  /\ ValidateAs(i, TRUE).err = "PendingMapFull"
           /\ ~NeedsRoom(i) =>
                  LET r == ValidateAs(i, TRUE)
                  IN  /\ r.err = "Ok"
                      /\ \A t \in Trees, h \in Hashes : Spends(i, t, h) =>
                             /\ h \in DOMAIN r.w.pending_nullifiers[t]
                             /\ Cardinality(DOMAIN r.w.pending_nullifiers[t])
                                    <= MAX_ELEMENTS_COUNT

\* one job was validated when the map of its tree held MAX_ELEMENTS_COUNT - 1
\* entries and filled it; the validation of a second job, which needs a new
\* entry in that map, is refused
C27_Witness ==
    \E i, j \in Slots :
        /\ i # j
        /\ Bound(j) /\ Acc(j).state = "NullifiersChecked"
        /\ AwaitsValidation(i) /\ NeedsRoom(i)
        /\ \E t \in Trees :
               /\ PendingEntries(t) = MAX_ELEMENTS_COUNT
               /\ \E h \in Hashes : Spends(i, t, h) /\ PendingCount(t, h) = 0
               /\ \E h \in Hashes : Spends(j, t, h) /\ PendingCount(t, h) = 1
        /\ ValidateAs(i, TRUE).err = "PendingMapFull"


\* --------------------------------------------- pending counts and jobs
\* the job of slot i is in flight: its nullifier hashes have been validated
\* and it has not been finalized
InFlight(i) ==
    /\ Bound(i)
    /\ Acc(i).state \in {"NullifiersChecked", "ProofSetup"}
    /\ ~Finalized(i)

\* the slots whose in-flight job claims hash h in tree t
Claimants(t, h) == { i \in Slots : InFlight(i) /\ Spends(i, t, h) }

\* C29: pending counts.  For every tree and nullifier hash the pending count
\* is the number of in-flight jobs whose request claims the hash in that
\* tree; it is never negative, and the hash is not in the pending map when
\* no such job remains.
C29_PendingCountsJobs ==
    \A t \in Trees, h \in Hashes :
        /\ PendingCount(t, h) = Cardinality(Claimants(t, h))
        /\ PendingCount(t, h) >= 0
        /\ Claimants(t, h) = {} => h \notin DOMAIN pending_nullifiers[t]

\* a hash is still pending with count 1 although the only job that claimed
\* it has been finalized and no job in flight claims it
C29_Stale ==
    \E i \in Slots : \E t \in Trees, h \in Hashes :
        /\ Finalized(i) /\ Spends(i, t, h)
        /\ Claimants(t, h) = {}
        /\ h \in nullifier_account[t]
        /\ PendingCount(t, h) = 1


\* ------------------------------------------- a verification resolved false
\* this step computes the last round of slot i and its result is false
ResolvesFalseNow(i) ==
    /\ Computing(i)
    /\ Acc(i).request.id \notin hist.rejected
    /\ Acc(i).request.id \in hist'.rejected

C31_HashRoundBounds ==
    /\ \A i \in HashSlots :
           LET acc == HashAcc(i)
               r == compute_base_commitment_hash(World, i)
           IN  /\ 0 <= acc.round /\ acc.round <= acc.total_rounds
               /\ (acc.is_active /\ acc.round = acc.total_rounds) =>
                      r.err = "ComputationIsAlreadyFinished" /\ r.w = World
               /\ ~acc.is_active =>
                      r.err = "ComputationIsNotYetFinished" /\ r.w = World
               /\ (acc.is_active /\ acc.round < acc.total_rounds) =>
                      /\ r.err = "Ok"
                      /\ r.w.hashing_account[i].round = acc.round + 1
    /\ \A i \in HashSlotArgs \ HashSlots :
           LET r == compute_base_commitment_hash(World, i)
           IN  r.err = "InvalidAccount" /\ r.w = World

\* all rounds of a hash job are done: one more compute call is refused
C31_Witness ==
    \E i \in HashSlots :
        /\ HashComplete(i)
        /\ hist.hash_steps[i] = TOTAL_POSEIDON_ROUNDS
        /\ HashAcc(i).state[1] = BaseCommitmentDigest(HashAcc(i).request.base_commitment,
                                                      HashAcc(i).request.amount)
        /\ compute_base_commitment_hash(World, i).err = "ComputationIsAlreadyFinished"


\* ------------------------------------------------ arity of the finalize
\* C32: arity mismatch.  On a verified slot the binary finalize of a Migrate
\* request fails with CannotFinalizeUnaryProof and the unary finalize of a
\* Send or Merge request with CannotFinalizeBinaryProof, whatever the tree
\* indices and the fee payer; on any slot bound to a request of the other
\* arity the call fails, and it has written nothing: no nullifier hash is
\* inserted, no queue is changed and the slot is as it was.
C32_ArityMismatch ==
    \A i \in Slots : Bound(i) =>
        /\ Acc(i).request.kind = "Migrate" =>
               \A r \in FinalizeBinaryCalls(i) :
                   /\ r.err # "Ok"
                   /\ r.w = World
                   /\ Verified(i) => r.err = "CannotFinalizeUnaryProof"
        /\ Acc(i).request.kind \in {"Send", "Merge"} =>
               \A r \in FinalizeUnaryCalls(i) :
                   /\ r.err # "Ok"
                   /\ r.w = World
                   /\ Verified(i) => r.err = "CannotFinalizeBinaryProof"

\* a verified Migrate and a verified Send wait for their finalize: each is
\* accepted by the handler of its arity and refused by the other
C32_Witness ==
    \E i, j \in Slots :
        /\ Verified(i) /\ Acc(i).request.kind = "Migrate"
        /\ Verified(j) /\ Acc(j).request.kind = "Send"
        /\ finalize_proof_binary(World, i, <<1, 1>>, "p2").err = "CannotFinalizeUnaryProof"
        /\ finalize_proof_unary(World, i, 1, "p2").err = "Ok"
        /\ finalize_proof_unary(World, j, 0, "p1").err = "CannotFinalizeBinaryProof"
        /\ finalize_proof_binary(World, j, <<0, 1>>, "p1").err = "Ok"


\* ------------------------------------- hash finalize on a full queue
\* the digest of hash slot i equals the commitment its request claims
DigestMatches(i) == HashAcc(i).request.commitment = HashAcc(i).state[1]

\* C33: hash finalize and the full commitment queue.  With all rounds done
\* and a digest equal to the claimed commitment, finalize fails on a full
\* commitment queue and has written nothing: the slot stays active with its
\* round and digest; as soon as an item is taken from the queue the same
\* finalize succeeds and appends the digest.  The digest of a job is queued
\* at most once: not while its slot is active, and exactly once when its
\* slot has been finalized.
C33_HashFinalizeFullQueue ==
    /\ \A id \in Ids : hist.commitments[id] <= 1
    /\ \A i \in HashSlots : (HashBound(i) /\ DigestMatches(i)) =>
           /\ HashAcc(i).is_active => hist.commitments[HashAcc(i).request.id] = 0
           /\ (~HashAcc(i).is_active /\ HashAcc(i).round = HashAcc(i).total_rounds)
                  => hist.commitments[HashAcc(i).request.id] = 1
           /\ HashComplete(i) =>
                  LET r == finalize_base_commitment_hash(World, i)
                      digest == HashAcc(i).state[1]
                  IN  IF Len(commitment_queue) >= OUT_CAPACITY
                      THEN /\ r.err = "QueueIsFull"
                           /\ r.w = World
                           /\ \A payer \in FeePayers :
                                  LET d == init_commitment_hash(World, payer)
                                      f == finalize_base_commitment_hash(d.w, i)
                                  IN  d.err = "Ok" =>
                                          /\ f.err = "Ok"
                                          /\ f.w.commitment_queue
                                                 = Append(d.w.commitment_queue, digest)
                      ELSE /\ r.err = "Ok"
                           /\ r.w.commitment_queue = Append(commitment_queue, digest)

\* all rounds of a hash job with the right commitment are done while the
\* commitment queue is full: finalize is refused, and accepted after the
\* commitment hashing has taken the queued commitment
C33_Witness ==
    \E i \in HashSlots :
        /\ HashComplete(i) /\ DigestMatches(i)
        /\ Len(commitment_queue) = OUT_CAPACITY
        /\ finalize_base_commitment_hash(World, i).err = "QueueIsFull"
        /\ init_commitment_hash(World, "p1").err = "Ok"
        /\ finalize_base_commitment_hash(init_commitment_hash(World, "p1").w, i).err = "Ok"


\* ------------------------------------------------ progress of hash jobs
\* compute and finalize calls on the hash slots are made again and again
FairHashSpec ==
    /\ Spec
    /\ WF_vars(ComputeBaseCommitmentHash)
    /\ WF_vars(FinalizeBaseCommitmentHash)

CommitmentQueueHasSpace == Len(commitment_queue) < OUT_CAPACITY

\* C34: progress of hash jobs.  When compute and finalize calls on the hash
\* slots keep being made, and the commitment queue does not stay full for
\* ever (it has space again and again), every hash job that init has bound
\* is finalized and its slot released.  Until the total is reached a compute
\* call succeeds; the total is reached after exactly TOTAL_POSEIDON_ROUNDS of
\* them, and finalize then succeeds unless it has to queue the digest and
\* the commitment queue is full.
C34_HashJobsFinish ==
    /\ [](\A i \in HashSlots : (HashBound(i) /\ HashAcc(i).is_active) =>
             /\ HashAcc(i).round < HashAcc(i).total_rounds =>
                    compute_base_commitment_hash(World, i).err = "Ok"
             /\ HashAcc(i).round = HashAcc(i).total_rounds =>
                    /\ hist.hash_steps[i] = TOTAL_POSEIDON_ROUNDS
                    /\ \/ finalize_base_commitment_hash(World, i).err = "Ok"
                       \/ DigestMatches(i) /\ ~CommitmentQueueHasSpace)
    /\ \A i \in HashSlots :
           ([]<>CommitmentQueueHasSpace)
               => ((HashBound(i) /\ HashAcc(i).is_active) ~> ~HashAcc(i).is_active)

\* a bound hash job at round 0, with all its rounds and its finalize ahead
C34_Witness ==
    \E i \in HashSlots :
        /\ HashBound(i) /\ HashAcc(i).is_active
        /\ HashAcc(i).round = 0 /\ hist.hash_steps[i] = 0
        /\ DigestMatches(i) = FALSE
        /\ compute_base_commitment_hash(World, i).err = "Ok"


\* ------------------------------------------ progress of verifications
\* C35: progress of verifications.  In no reachable state is there a slot
\* with a staged proof, not yet resolved, on which compute_proof does not
\* succeed; so with compute calls made again and again every staged slot
\* gets resolved.
C35_ComputeNeverDisabled ==
    \A i \in Slots : Computing(i) => compute_proof(World, i).err = "Ok"

\* the input preparation of slot i is done and the first round of the Miller
\* loop cannot decode the proof: the call fails and is undone, and the same
\* round fails again on the accounts it leaves
C35_Stuck ==
    \E i \in Slots :
        /\ Computing(i)
        /\ hist.steps[i] = Acc(i).prepare_inputs_instructions_count
        /\ compute_proof(World, i).err = "CouldNotProcessProof"
        /\ compute_proof(Outcome(World, compute_proof(World, i)), i).err
               = "CouldNotProcessProof"
        /\ Acc(i).request.id \notin hist.rejected


\* ------------------------------------------------ stored public inputs
\* C36: stored public inputs.  From init on, the public inputs stored in a
\* slot are the public inputs of the bound request, in the same order, and
\* the number of input preparation rounds is the count derived from them;
\* as long as the slot holds the same request neither changes, and the
\* request itself does not change.
C36_PublicInputsKept ==
    /\ [](\A i \in Slots : Bound(i) =>
             /\ Acc(i).public_input = Acc(i).request.public_inputs
             /\ Acc(i).prepare_inputs_instructions_count
                    = prepare_public_inputs_instructions(Acc(i).request.public_inputs))
    /\ [][\A i \in Slots :
             (Bound(i) /\ verification_account'[i].request.id = Acc(i).request.id) =>
                 /\ verification_account'[i].request = Acc(i).request
                 /\ verification_account'[i].public_input = Acc(i).public_input
                 /\ verification_account'[i].prepare_inputs_instructions_count
                        = Acc(i).prepare_inputs_instructions_count]_vars

\* a Send has gone through all its rounds and is verified: its two public
\* inputs and its count of two preparation rounds are as init stored them
C36_Witness ==
    \E i \in Slots :
        /\ Verified(i)
        /\ Acc(i).request.kind = "Send"
        /\ Acc(i).public_input = SendRequest.public_inputs
        /\ Len(Acc(i).public_input) = 2
        /\ Acc(i).public_input[1] # Acc(i).public_input[2]
        /\ Acc(i).prepare_inputs_instructions_count = 2
        /\ hist.steps[i] = 2 + COMBINED_MILLER_LOOP_IXS + FINAL_EXPONENTIATION_IXS

\* ------------------------------------------ commitment (merkle) hash engine
\* C37: the commitment hash engine is round bounded and resumable like the
\* base commitment hashing.  On an active commitment hashing account
\* compute_commitment_hash succeeds and advances the round by exactly 1,
\* leaving the rest of the account as it was, and once the round equals the
\* total rounds finalize_commitment_hash succeeds.
C37_CommitmentHashRounds ==
    commitment_hashing_account.is_active =>
        /\ LET r == compute_commitment_hash(World)
           IN  /\ r.err = "Ok"
               /\ r.w.commitment_hashing_account =
                      [commitment_hashing_account EXCEPT !.round = @ + 1]
        /\ commitment_hashing_account.round = commitment_hashing_account.total_rounds
               => finalize_commitment_hash(World).err = "Ok"

\* a commitment hash job has been started from the commitment queue: the
\* account is active at round 0, a compute call aborts without writing the
\* round, and the finalize call is refused since the rounds are not done
C37_Aborts ==
    /\ commitment_hashing_account.is_active
    /\ commitment_hashing_account.round = 0
    /\ commitment_hashing_account.round < commitment_hashing_account.total_rounds
    /\ compute_commitment_hash(World).err = "Panic"
    /\ compute_commitment_hash(World).w = World
    /\ finalize_commitment_hash(World).err = "ComputationIsNotYetFinished"

\* --------------------------------------------------- multi-account lookup
\* accounts.rs (tests): SUB_ACCOUNT_COUNT, the COUNT of the test multi account
SUB_ACCOUNT_COUNT == 3
SubIndices == 0 .. SUB_ACCOUNT_COUNT - 1

\* the public key of sub-account j, and the key of an account that is none
\* of the sub-accounts (unused_account of test_find)
SubKey(j) == << "sub", j >>
UnusedKey == << "unused" >>
NoKey == << "None" >>
ProgramId == "program"

\* the smallest of a non-empty set of numbers
Least(S) == CHOOSE x \in S : \A y \in S : x <= y

\* (mutant) the registered keys are searched from index 0 for every account
matching_index_FromStart(pubkeys, key, i) ==
    { j \in SubIndices : pubkeys[j] # NoKey /\ pubkeys[j] = key }

\* the indices the inner loop `for j in i..Self::COUNT` can stop at: the
\* registered (set) keys from index i on that equal the account's key
matching_index(pubkeys, key, i) ==
    { j \in i .. SUB_ACCOUNT_COUNT - 1 : pubkeys[j] # NoKey /\ pubkeys[j] = key }

\* the while loop of find_sub_accounts.  st.i is the loop index, st.taken the
\* number of accounts taken from account_info_iter, st.remaining the number
\* remaining_iter was advanced by, st.accounts the map from sub-account
\* index to the position of the supplied account it is matched with
RECURSIVE find_sub_accounts_loop(_, _, _, _, _)
find_sub_accounts_loop(pubkeys, program_id, writable, supplied, st) ==
    IF st.i >= SUB_ACCOUNT_COUNT THEN [st EXCEPT !.err = "Ok"]
    ELSE IF st.taken >= Len(supplied) THEN [st EXCEPT !.err = "Ok"]
    ELSE LET pos == st.taken + 1
             account == supplied[pos]
             found == matching_index(pubkeys, account.key, st.i)
             took == [st EXCEPT !.taken = pos]
         IN  IF found = {}
             THEN find_sub_accounts_loop(pubkeys, program_id, writable, supplied,
                                         [took EXCEPT !.i = st.i + 1])
             ELSE LET j == Least(found)
                  IN  IF account.owner # program_id
                      THEN [took EXCEPT !.err = "IllegalOwner"]
                      ELSE IF writable /\ ~account.is_writable
                      THEN [took EXCEPT !.err = "InvalidArgument"]
                      ELSE find_sub_accounts_loop(
                               pubkeys, program_id, writable, supplied,
                               [took EXCEPT !.accounts = [k \in DOMAIN @ \cup {j} |->
                                                            IF k = j THEN pos ELSE @[k]],
                                            !.remaining = @ + 1,
                                            !.i = j + 1])

\* find_sub_accounts(main_account, program_id, writable, account_info_iter):
\* the result, the map, and the number of accounts the caller's iterator has
\* been advanced by when the call returns (on Ok it is set to remaining_iter,
\* on an error it is left where the loop took its last account)
find_sub_accounts(main_account, program_id, writable, supplied) ==
    IF ~main_account.data_ok
    THEN [err |-> "InvalidArgument", accounts |-> << >>, advanced |-> 0]
    ELSE LET st == find_sub_accounts_loop(
                       main_account.pubkeys, program_id, writable, supplied,
                       [err |-> "running", i |-> 0, taken |-> 0, remaining |-> 0,
                        accounts |-> << >>])
         IN  [err |-> st.err,
              accounts |-> IF st.err = "Ok" THEN st.accounts ELSE << >>,
              advanced |-> IF st.err = "Ok" THEN st.remaining ELSE st.taken]

\* inputs of one call: which sub-accounts are registered, the keys of the
\* supplied accounts in order, at most one supplied account that is owned by
\* another program or is read-only, and whether writable accounts are asked
SuppliedKeys == { SubKey(j) : j \in SubIndices } \cup { UnusedKey }
SuppliedKeySeqs == UNION { [1 .. n -> SuppliedKeys] : n \in 0 .. MaxAccounts }
Flaws == { << "none", 0 >> } \cup ({ "owner", "readonly" } \X (1 .. MaxAccounts))

SuppliedAccounts(keys, flaw) ==
    [ p \in 1 .. Len(keys) |->
        [key |-> keys[p],
         owner |-> IF flaw = << "owner", p >> THEN "other" ELSE ProgramId,
         is_writable |-> flaw # << "readonly", p >>] ]

FindInit ==
    /\ Init!1 /\ Init!2 /\ Init!3 /\ Init!4 /\ Init!5 /\ Init!6
    /\ Init!7 /\ Init!8 /\ Init!9 /\ Init!10 /\ Init!11
    /\ \E setup \in [SubIndices -> BOOLEAN], keys \in SuppliedKeySeqs,
          flaw \in Flaws, writable \in BOOLEAN, data_ok \in BOOLEAN :
          /\ flaw[2] <= Len(keys)
          /\ ~data_ok => (flaw[1] = "none" /\ ~writable /\ \A j \in SubIndices : setup[j])
          /\ hist = [main_account |->
                         [data_ok |-> data_ok,
                          pubkeys |-> [j \in SubIndices |->
                                         IF setup[j] THEN SubKey(j) ELSE NoKey]],
                     writable |-> writable,
                     supplied |-> SuppliedAccounts(keys, flaw),
                     called |-> FALSE,
                     result |-> [err |-> "none", accounts |-> << >>, advanced |-> 0]]

FindSubAccounts ==
    /\ ~hist.called
    /\ hist' = [hist EXCEPT
                  !.called = TRUE,
                  !.result = find_sub_accounts(hist.main_account, ProgramId,
                                               hist.writable, hist.supplied)]
    /\ UNCHANGED << send_queue, merge_queue, migrate_queue, finalize_send_queue,
                    commitment_queue, base_commitment_queue, verification_account,
                    hashing_account, commitment_hashing_account, nullifier_account,
                    pending_nullifiers >>

FindSpec == FindInit /\ [][FindSubAccounts]_vars

\* the call has returned a map
Found == hist.called /\ hist.result.err = "Ok"
\* the sub-account indices matched, and the supplied positions matched
MatchedKeys == DOMAIN hist.result.accounts
MatchedPositions == { hist.result.accounts[j] : j \in MatchedKeys }

\* the part of C38 that holds as stated: the keys increase strictly in the
\* order of supply, key j is mapped to a supplied account whose key is the
\* registered pubkeys[j], which is set, and the caller's iterator is advanced
\* by the number of matched accounts
FindMapSound ==
    /\ \A j, k \in MatchedKeys :
           j < k <=> hist.result.accounts[j] < hist.result.accounts[k]
    /\ \A j \in MatchedKeys :
           /\ hist.main_account.pubkeys[j] # NoKey
           /\ hist.result.accounts[j] \in 1 .. Len(hist.supplied)
           /\ hist.supplied[hist.result.accounts[j]].key = hist.main_account.pubkeys[j]
    /\ hist.result.advanced = Cardinality(MatchedKeys)

MAX_ACCOUNT_SIZE == 10000000

\* BigArrayAccount::MAX_VALUES_PER_ACCOUNT for elements of T::SIZE bytes
MAX_VALUES_PER_ACCOUNT(element_size) == MAX_ACCOUNT_SIZE \div element_size

\* BigArrayAccount::account_and_local_index(index); the division by a
\* MAX_VALUES_PER_ACCOUNT of 0 (an element larger than an account) panics
account_and_local_index(element_size, index) ==
    IF element_size = 0 THEN [err |-> "Panic", account_index |-> 0, local_index |-> 0]
    ELSE IF MAX_VALUES_PER_ACCOUNT(element_size) = 0
    THEN [err |-> "Panic", account_index |-> 0, local_index |-> 0]
    ELSE LET account_index == index \div MAX_VALUES_PER_ACCOUNT(element_size)
         IN  [err |-> "Ok",
              account_index |-> account_index,
              local_index |-> index - account_index * MAX_VALUES_PER_ACCOUNT(element_size)]

\* (mutant) the account holding the rest of the array is not counted
big_array_accounts_count_Floor(size, element_size) ==
    IF element_size = 0 THEN [err |-> "Panic", count |-> 0]
    ELSE LET max == MAX_ACCOUNT_SIZE \div element_size
         IN  IF max = 0 THEN [err |-> "Panic", count |-> 0]
             ELSE [err |-> "Ok", count |-> size \div max]

\* big_array_accounts_count(size, element_size)
big_array_accounts_count(size, element_size) ==
    IF element_size = 0 THEN [err |-> "Panic", count |-> 0]
    ELSE LET max == MAX_ACCOUNT_SIZE \div element_size
         IN  IF max = 0 THEN [err |-> "Panic", count |-> 0]
             ELSE [err |-> "Ok",
                   count |-> (size \div max) + (IF size % max = 0 THEN 0 ELSE 1)]

\* element sizes: none, one byte, a public key, and the sizes at which the
\* number of values in one account changes between 0 and MaxRegionValues
ElementSizes ==
    {0, 1, 32} \cup { MAX_ACCOUNT_SIZE \div k : k \in 1 .. MaxRegionValues }
               \cup { (MAX_ACCOUNT_SIZE \div k) + 1 : k \in 1 .. MaxRegionValues }

BigArrayInit ==
    /\ Init!1 /\ Init!2 /\ Init!3 /\ Init!4 /\ Init!5 /\ Init!6
    /\ Init!7 /\ Init!8 /\ Init!9 /\ Init!10 /\ Init!11
    /\ \E element_size \in ElementSizes, size \in 0 .. MaxSize, index \in 0 .. MaxSize :
          hist = [element_size |-> element_size, size |-> size, index |-> index,
                  indexed |-> FALSE, counted |-> FALSE,
                  at |-> [err |-> "none", account_index |-> 0, local_index |-> 0],
                  accounts |-> [err |-> "none", count |-> 0]]

BigArrayUnchanged ==
    UNCHANGED << send_queue, merge_queue, migrate_queue, finalize_send_queue,
                 commitment_queue, base_commitment_queue, verification_account,
                 hashing_account, commitment_hashing_account, nullifier_account,
                 pending_nullifiers >>

AccountAndLocalIndex ==
    /\ ~hist.indexed
    /\ hist' = [hist EXCEPT !.indexed = TRUE,
                            !.at = account_and_local_index(hist.element_size, hist.index)]
    /\ BigArrayUnchanged

BigArrayAccountsCount ==
    /\ ~hist.counted
    /\ hist' = [hist EXCEPT !.counted = TRUE,
                            !.accounts = big_array_accounts_count(hist.size, hist.element_size)]
    /\ BigArrayUnchanged

BigArrayNext == AccountAndLocalIndex \/ BigArrayAccountsCount

BigArraySpec == BigArrayInit /\ [][BigArrayNext]_vars

\* the ceiling of x / y: the least number of parts of y that cover x
Ceiling(x, y) == CHOOSE c \in 0 .. x : c * y >= x /\ (c = 0 \/ (c - 1) * y < x)

\* C39: for every index i, account_and_local_index(i) = (a, l) has
\* a = i div MAX_VALUES_PER_ACCOUNT, 0 <= l < MAX_VALUES_PER_ACCOUNT and
\* a * MAX_VALUES_PER_ACCOUNT + l = i, and no other index has the same pair;
\* for i < size the account index a is below big_array_accounts_count(size,
\* element_size), which is the ceiling of size / (MAX_ACCOUNT_SIZE div
\* element_size).
C39_BigArrayIndex ==
    LET M == MAX_VALUES_PER_ACCOUNT(hist.element_size)
    IN  /\ (hist.indexed /\ hist.at.err = "Ok") =>
               /\ hist.at.account_index = hist.index \div M
               /\ 0 <= hist.at.local_index
               /\ hist.at.local_index < M
               /\ hist.at.account_index * M + hist.at.local_index = hist.index
               /\ \A k \in 0 .. MaxSize :
                      k # hist.index =>
                          LET other == account_and_local_index(hist.element_size, k)
                          IN  << other.account_index, other.local_index >>
                                  # << hist.at.account_index, hist.at.local_index >>
        /\ (hist.counted /\ hist.accounts.err = "Ok") =>
               hist.accounts.count
                   = Ceiling(hist.size, MAX_ACCOUNT_SIZE \div hist.element_size)
        /\ (/\ hist.indexed /\ hist.at.err = "Ok"
            /\ hist.counted /\ hist.accounts.err = "Ok"
            /\ hist.index < hist.size) =>
               hist.at.account_index < hist.accounts.count
        /\ hist.indexed =>
               (hist.at.err = "Ok" <=> hist.element_size \in 1 .. MAX_ACCOUNT_SIZE)

\* three values fit in one account and the array has ten: the last index is
\* the first value of the fourth account, which holds the rest of the array
C39_Witness ==
    /\ hist.indexed /\ hist.counted
    /\ hist.element_size = MAX_ACCOUNT_SIZE \div 3
    /\ MAX_VALUES_PER_ACCOUNT(hist.element_size) = 3
    /\ hist.size = 10
    /\ hist.index = 9
    /\ hist.at = [err |-> "Ok", account_index |-> 3, local_index |-> 0]
    /\ hist.accounts = [err |-> "Ok", count |-> 4]

\* --------------------------------------------------- basic warden network
WardenIds == 1 .. MaxWardens
MemberIndices == 0 .. BASIC_WARDEN_NETWORK_SIZE - 1

\* BasicWardenNetworkAccount after its creation: no members
EmptyBasicWardenNetworkAccount ==
    [members |-> [k \in MemberIndices |-> 0], members_count |-> 0]

\* (mutant) a warden is registered whether or not the network is full
try_add_member_NoGuard(account, warden_id) ==
    [err |-> "Ok",
     account |-> [account EXCEPT
                    !.members = [k \in MemberIndices |->
                                   IF k = account.members_count THEN warden_id ELSE @[k]],
                    !.members_count = @ + 1]]

\* BasicWardenNetworkAccount::try_add_member(warden_id); members_count is a
\* u32 that the guard keeps below the size, so members_count + 1 never wraps
try_add_member(account, warden_id) ==
    IF ~(account.members_count < BASIC_WARDEN_NETWORK_SIZE)
    THEN [err |-> "WardenRegistrationError", account |-> account]
    ELSE [err |-> "Ok",
          account |-> [account EXCEPT
                         !.members = [k \in MemberIndices |->
                                        IF k = account.members_count THEN warden_id ELSE @[k]],
                         !.members_count = @ + 1]]

\* hist.account is the network account; hist.registered the wardens whose
\* registration succeeded, in order, and hist.last the result of the last call
NetworkInit ==
    /\ Init!1 /\ Init!2 /\ Init!3 /\ Init!4 /\ Init!5 /\ Init!6
    /\ Init!7 /\ Init!8 /\ Init!9 /\ Init!10 /\ Init!11
    /\ hist = [account |-> EmptyBasicWardenNetworkAccount,
               registered |-> << >>, last |-> "none"]

TryAddMember ==
    \E warden_id \in WardenIds :
        LET r == try_add_member(hist.account, warden_id)
        IN  /\ hist' = [hist EXCEPT
                          !.account = r.account,
                          !.registered = IF r.err = "Ok" THEN Append(@, warden_id) ELSE @,
                          !.last = r.err]
            /\ UNCHANGED << send_queue, merge_queue, migrate_queue, finalize_send_queue,
                            commitment_queue, base_commitment_queue, verification_account,
                            hashing_account, commitment_hashing_account,
                            nullifier_account, pending_nullifiers >>

NetworkSpec == NetworkInit /\ [][TryAddMember]_vars

\* C40: try_add_member succeeds only while members_count is below the size of
\* the network; it then writes the warden id at index members_count and adds
\* exactly 1 to members_count, leaving the earlier members as they are.  On a
\* full network it fails with WardenRegistrationError and changes nothing.
\* So members_count never exceeds the size and the members are stored in the
\* order of their registration.
C40_TryAddMember ==
    LET account == hist.account
    IN  /\ account.members_count <= BASIC_WARDEN_NETWORK_SIZE
        /\ Len(hist.registered) = account.members_count
        /\ \A k \in MemberIndices :
               k < account.members_count => account.members[k] = hist.registered[k + 1]
        /\ \A warden_id \in WardenIds :
               LET r == try_add_member(account, warden_id)
               IN  /\ r.err = "Ok" <=> account.members_count < BASIC_WARDEN_NETWORK_SIZE
                   /\ r.err = "Ok" =>
                          /\ r.account.members_count = account.members_count + 1
                          /\ r.account.members[account.members_count] = warden_id
                          /\ \A k \in MemberIndices :
                                 k # account.members_count =>
                                     r.account.members[k] = account.members[k]
                   /\ r.err # "Ok" =>
                          /\ r.err = "WardenRegistrationError"
                          /\ r.account = account

\* the network has been filled by different wardens and a further
\* registration was refused
C40_Witness ==
    /\ hist.account.members_count = BASIC_WARDEN_NETWORK_SIZE
    /\ hist.last = "WardenRegistrationError"
    /\ hist.registered[1] # hist.registered[2]
    /\ hist.registered[2] # hist.registered[BASIC_WARDEN_NETWORK_SIZE]
    /\ \A k \in MemberIndices : hist.account.members[k] = hist.registered[k + 1]

====
